---- MODULE Spec2Model ----
(***************************************************************************)
(* Model of the opencode-chat proxy core: the persistent upstream client   *)
(* (OpenCodeClient: per-session state store, merge rules, permission       *)
(* queue, listeners), the buffering gate, and the server's downstream      *)
(* connection manager (/stream, keepalive, abort cleanup, fan-out).        *)
(***************************************************************************)
EXTENDS Integers, Sequences, FiniteSets, TLC

\* ------------------------------------------------------------------ bounds
MaxEvents == 2
MaxStoreEvents == 3
MaxPending == 1
MaxClock == 2
MaxFrames == 3
MaxAttempts == 6
MaxChats == 2
MaxText == 6

\* ------------------------------------------------------------- value sets
Sessions == {"s1", "s2"}
Handles == {"h1", "h2"}
PermIds == {"p1", "p2"}
MsgIds == {"m1", "m2"}
PartIds == {"a", "b"}
None == "none"

EmptyMap == [x \in {} |-> x]

NoInfo == [id |-> None, sessionID |-> None, created |-> 0]
NoPart == [id |-> None, messageID |-> None, sessionID |-> None,
           type |-> None, callID |-> None, status |-> None]

\* An upstream event: its type and the fields of its `properties` object.
\* A field that is absent from the JSON payload holds None
\* (NoInfo / NoPart for the nested objects).
Ev(t, sid, info, part, mid, pid, permID, id) ==
  [type |-> t, sessionID |-> sid, info |-> info, part |-> part,
   messageID |-> mid, partID |-> pid, permissionID |-> permID, id |-> id]

MessageUpdated(s, m, c) ==
  Ev("message.updated", None, [id |-> m, sessionID |-> s, created |-> c],
     NoPart, None, None, None, None)
MessageRemoved(s, m) ==
  Ev("message.removed", s, NoInfo, NoPart, m, None, None, None)
PartUpdated(p) ==
  Ev("message.part.updated", None, NoInfo, p, None, None, None, None)
PartRemoved(s, m, p) ==
  Ev("message.part.removed", s, NoInfo, NoPart, m, p, None, None)
PermissionUpdated(s, p) ==
  Ev("permission.updated", s, NoInfo, NoPart, None, None, None, p)
PermissionReplied(s, p) ==
  Ev("permission.replied", s, NoInfo, NoPart, None, None, p, None)
OtherEvent(s) ==
  Ev("session.idle", s, NoInfo, NoPart, None, None, None, None)

\* ----------------------------------------------------------- pure helpers
\* queue.filter((id) => id !== x)
RECURSIVE FilterOut(_, _)
FilterOut(s, x) ==
  IF s = <<>> THEN <<>>
  ELSE IF Head(s) # x THEN <<Head(s)>> \o FilterOut(Tail(s), x)
       ELSE FilterOut(Tail(s), x)

\* Variant: a lookup that finds no message falls back to the first one.
FindMsgFallsBack(messages, mid) ==
  IF \E i \in 1..Len(messages) : messages[i].info.id = mid
  THEN CHOOSE i \in 1..Len(messages) :
         /\ messages[i].info.id = mid
         /\ \A j \in 1..(i-1) : messages[j].info.id # mid
  ELSE IF messages # <<>> THEN 1 ELSE 0

\* Variant: the lookup by message id never finds the message.
FindMsgMisses(messages, mid) == 0

\* Array.prototype.findIndex on message id; 0 when absent (JS: -1).
FindMsg(messages, mid) ==
  IF \E i \in 1..Len(messages) : messages[i].info.id = mid
  THEN CHOOSE i \in 1..Len(messages) :
         /\ messages[i].info.id = mid
         /\ \A j \in 1..(i-1) : messages[j].info.id # mid
  ELSE 0

\* Variant: the lookup by part id never finds the part.
FindPartMisses(parts, pid) == 0

FindPart(parts, pid) ==
  IF \E i \in 1..Len(parts) : parts[i].id = pid
  THEN CHOOSE i \in 1..Len(parts) :
         /\ parts[i].id = pid
         /\ \A j \in 1..(i-1) : parts[j].id # pid
  ELSE 0

RemoveAt(s, i) == SubSeq(s, 1, i-1) \o SubSeq(s, i+1, Len(s))

\* (a.info?.time?.created || 0): the sort key of a message.
Created(m) == m.info.created

\* Variant: m goes before the elements with an equal key (not stable).
RECURSIVE InsertSortedBeforeEqual(_, _)
InsertSortedBeforeEqual(sorted, m) ==
  IF sorted = <<>> THEN <<m>>
  ELSE IF Created(Head(sorted)) < Created(m)
       THEN <<Head(sorted)>> \o InsertSortedBeforeEqual(Tail(sorted), m)
       ELSE <<m>> \o sorted

\* Insert m after every element whose key is <= its key (keeps insertion stable).
RECURSIVE InsertSorted(_, _)
InsertSorted(sorted, m) ==
  IF sorted = <<>> THEN <<m>>
  ELSE IF Created(Head(sorted)) <= Created(m)
       THEN <<Head(sorted)>> \o InsertSorted(Tail(sorted), m)
       ELSE <<m>> \o sorted

\* messages.sort((a, b) => created(a) - created(b)): a stable sort.
RECURSIVE SortMessages(_)
SortMessages(messages) ==
  IF messages = <<>> THEN <<>>
  ELSE InsertSorted(SortMessages(SubSeq(messages, 1, Len(messages) - 1)),
                    messages[Len(messages)])

MapRemove(f, keys) == [k \in DOMAIN f \ keys |-> f[k]]
MapPut(f, k, v) == [x \in DOMAIN f \cup {k} |-> IF x = k THEN v ELSE f[x]]

\* ------------------------------------------------------ session state store
\* getOrCreateState: the entry a session gets the first time it is referenced.
NewState(t) ==
  [messages |-> <<>>,
   permissions |-> [byId |-> EmptyMap, queue |-> <<>>, activeId |-> None],
   toolsByCall |-> EmptyMap,
   lastUpdate |-> t]

\* extractSessionId: the first truthy of properties.sessionID,
\* properties.info.sessionID, properties.part.sessionID, else null.
extractSessionId(ev) ==
  IF ev.sessionID # None THEN ev.sessionID
  ELSE IF ev.info.sessionID # None THEN ev.info.sessionID
  ELSE IF ev.part.sessionID # None THEN ev.part.sessionID
  ELSE None

\* Object.assign(existingPart, part): keys present in `part` overwrite.
AssignPart(existing, part) ==
  [f \in DOMAIN existing |-> IF part[f] # None THEN part[f] ELSE existing[f]]

\* Variant: the entry names the call id where the part id belongs.
ToolEntryNamesCall(part) ==
  [callID |-> part.callID, messageID |-> part.messageID,
   partID |-> part.callID, state |-> part.status]

ToolEntry(part) ==
  [callID |-> part.callID, messageID |-> part.messageID,
   partID |-> part.id, state |-> part.status]

\* Variant: the removal deletes the permission from byId and leaves its id
\* in the queue.
RemovePermissionLeavesQueue(perms, pid) ==
  [byId |-> MapRemove(perms.byId, {pid}),
   queue |-> perms.queue,
   activeId |-> IF perms.activeId = pid
                THEN (IF perms.queue = <<>> THEN None ELSE perms.queue[1])
                ELSE perms.activeId]

\* Variant: the removal forgets to move activeId to the new head.
RemovePermissionKeepsActive(perms, pid) ==
  [byId |-> MapRemove(perms.byId, {pid}),
   queue |-> FilterOut(perms.queue, pid),
   activeId |-> perms.activeId]

\* The permission.replied branch and respondToPermission share this removal.
RemovePermission(perms, pid) ==
  LET q == FilterOut(perms.queue, pid)
  IN [byId |-> MapRemove(perms.byId, {pid}),
      queue |-> q,
      activeId |-> IF perms.activeId = pid
                   THEN (IF q = <<>> THEN None ELSE q[1])
                   ELSE perms.activeId]

\* Variant: the announcement is queued without looking the id up in byId.
PermissionAnnouncedAgain(st, ev) ==
  [st |-> [st EXCEPT !.permissions =
             [byId |-> MapPut(st.permissions.byId, ev.id,
                              [id |-> ev.id, sessionID |-> ev.sessionID]),
              queue |-> Append(st.permissions.queue, ev.id),
              activeId |-> IF st.permissions.activeId = None
                           THEN ev.id ELSE st.permissions.activeId]],
   updated |-> TRUE]

\* The permission.updated branch: an id that byId does not hold is stored,
\* queued and made active when no permission is active.
PermissionAnnounced(st, ev) ==
  IF ev.id \notin DOMAIN st.permissions.byId THEN
    [st |-> [st EXCEPT !.permissions =
               [byId |-> MapPut(st.permissions.byId, ev.id,
                                [id |-> ev.id, sessionID |-> ev.sessionID]),
                queue |-> Append(st.permissions.queue, ev.id),
                activeId |-> IF st.permissions.activeId = None
                             THEN ev.id ELSE st.permissions.activeId]],
     updated |-> TRUE]
  ELSE [st |-> st, updated |-> FALSE]

\* Variant: removing a message leaves the tool-call index as it is.
MergeEventNoCascade(st, ev) ==
  LET t == ev.type IN
  IF t = "message.updated" THEN
    LET i == FindMsg(st.messages, ev.info.id) IN
    [st |-> [st EXCEPT !.messages =
               IF i > 0 THEN [st.messages EXCEPT ![i].info = ev.info]
               ELSE Append(st.messages, [info |-> ev.info, parts |-> <<>>])],
     updated |-> TRUE]
  ELSE IF t = "message.removed" THEN
    LET i == FindMsg(st.messages, ev.messageID) IN
    IF i > 0 THEN
      [st |-> [st EXCEPT !.messages = RemoveAt(st.messages, i)],
       updated |-> TRUE]
    ELSE [st |-> st, updated |-> FALSE]
  ELSE IF t = "message.part.updated" THEN
    LET part == ev.part
        i == FindMsg(st.messages, part.messageID) IN
    IF i > 0 THEN
      LET parts == st.messages[i].parts
          j == FindPart(parts, part.id)
          parts2 == IF j > 0
                    THEN [parts EXCEPT ![j] = AssignPart(parts[j], part)]
                    ELSE Append(parts, part)
          tools2 == IF part.type = "tool" /\ part.callID # None
                       /\ part.status # None
                    THEN MapPut(st.toolsByCall, part.callID, ToolEntry(part))
                    ELSE st.toolsByCall
      IN [st |-> [st EXCEPT !.messages[i].parts = parts2,
                            !.toolsByCall = tools2],
          updated |-> TRUE]
    ELSE [st |-> st, updated |-> FALSE]
  ELSE IF t = "message.part.removed" THEN
    LET i == FindMsg(st.messages, ev.messageID) IN
    IF i > 0 THEN
      LET parts == st.messages[i].parts
          j == FindPart(parts, ev.partID)
      IN [st |-> [st EXCEPT
                    !.messages[i].parts =
                       IF j > 0 THEN RemoveAt(parts, j) ELSE parts,
                    !.toolsByCall = MapRemove(st.toolsByCall,
                       {c \in DOMAIN st.toolsByCall :
                          st.toolsByCall[c].partID = ev.partID})],
          updated |-> TRUE]
    ELSE [st |-> st, updated |-> FALSE]
  ELSE IF t = "permission.updated" THEN PermissionAnnounced(st, ev)
  ELSE IF t = "permission.replied" THEN
    IF ev.permissionID \in DOMAIN st.permissions.byId THEN
      [st |-> [st EXCEPT !.permissions =
                 RemovePermission(st.permissions, ev.permissionID)],
       updated |-> TRUE]
    ELSE [st |-> st, updated |-> FALSE]
  ELSE [st |-> st, updated |-> FALSE]

\* The branch of handleEvent selected by the event type, applied to the
\* session entry st. Result: [st |-> entry after the branch, updated |-> flag].
MergeEvent(st, ev) ==
  LET t == ev.type IN
  IF t = "message.updated" THEN
    LET i == FindMsg(st.messages, ev.info.id) IN
    [st |-> [st EXCEPT !.messages =
               IF i > 0 THEN [st.messages EXCEPT ![i].info = ev.info]
               ELSE Append(st.messages, [info |-> ev.info, parts |-> <<>>])],
     updated |-> TRUE]
  ELSE IF t = "message.removed" THEN
    LET i == FindMsg(st.messages, ev.messageID) IN
    IF i > 0 THEN
      [st |-> [st EXCEPT
                 !.messages = RemoveAt(st.messages, i),
                 !.toolsByCall = MapRemove(st.toolsByCall,
                    {c \in DOMAIN st.toolsByCall :
                       st.toolsByCall[c].messageID = st.messages[i].info.id})],
       updated |-> TRUE]
    ELSE [st |-> st, updated |-> FALSE]
  ELSE IF t = "message.part.updated" THEN
    LET part == ev.part
        i == FindMsg(st.messages, part.messageID) IN
    IF i > 0 THEN
      LET parts == st.messages[i].parts
          j == FindPart(parts, part.id)
          parts2 == IF j > 0
                    THEN [parts EXCEPT ![j] = AssignPart(parts[j], part)]
                    ELSE Append(parts, part)
          tools2 == IF part.type = "tool" /\ part.callID # None
                       /\ part.status # None
                    THEN MapPut(st.toolsByCall, part.callID, ToolEntry(part))
                    ELSE st.toolsByCall
      IN [st |-> [st EXCEPT !.messages[i].parts = parts2,
                            !.toolsByCall = tools2],
          updated |-> TRUE]
    ELSE [st |-> st, updated |-> FALSE]
  ELSE IF t = "message.part.removed" THEN
    LET i == FindMsg(st.messages, ev.messageID) IN
    IF i > 0 THEN
      LET parts == st.messages[i].parts
          j == FindPart(parts, ev.partID)
      IN [st |-> [st EXCEPT
                    !.messages[i].parts =
                       IF j > 0 THEN RemoveAt(parts, j) ELSE parts,
                    !.toolsByCall = MapRemove(st.toolsByCall,
                       {c \in DOMAIN st.toolsByCall :
                          st.toolsByCall[c].partID = ev.partID})],
          updated |-> TRUE]
    ELSE [st |-> st, updated |-> FALSE]
  ELSE IF t = "permission.updated" THEN PermissionAnnounced(st, ev)
  ELSE IF t = "permission.replied" THEN
    IF ev.permissionID \in DOMAIN st.permissions.byId THEN
      [st |-> [st EXCEPT !.permissions =
                 RemovePermission(st.permissions, ev.permissionID)],
       updated |-> TRUE]
    ELSE [st |-> st, updated |-> FALSE]
  ELSE [st |-> st, updated |-> FALSE]

\* The tail of handleEvent: when the branch updated the entry, stamp
\* lastUpdate and re-sort the messages.
FinishMerge(r, t) ==
  IF r.updated
  THEN [r.st EXCEPT !.lastUpdate = t, !.messages = SortMessages(r.st.messages)]
  ELSE r.st


\* ------------------------------------------------------------------ state
VARIABLES
  state,               \* OpenCodeClient.state: session id -> session entry
  now,                 \* the value Date.now() returns
  pending,             \* session id -> /state requests waiting on the history fetch
  buffering,           \* sessions whose buffering flag is set
  buffered,            \* session id -> notifications held back, oldest first
  browserConnections,  \* server: session id -> set of stream controllers
  hpc,                 \* per handle: position of its /stream start():
                       \* "idle", "fetch" (waiting for the history), "live"
                       \* (start() returned), "rejected" (getSessionState
                       \* threw), "failed" (the initial enqueue threw)
  hsess,               \* per handle: the sessionId of its request
  open,                \* per handle: controller.enqueue succeeds
  keepalive,           \* per handle: its keepalive interval is installed
  abortListener,       \* per handle: its abort listener is installed
  aborted,             \* per handle: req.signal has fired
  log,                 \* per handle: the data frames enqueued, oldest first
  nEvents,             \* history: upstream events handed to handleEvent
  nNotif,              \* history: notifications made by notifyListeners
  notified,            \* history: session id -> ids of its notifications
  regAt,               \* history: per handle, nNotif when it was registered
  isConnecting,        \* OpenCodeClient.isConnecting
  connects,            \* the connect() executions past the guard, each at
                       \* "fetching" (awaiting fetch) or "reading" (read loop)
  reconnectAttempts,   \* OpenCodeClient.reconnectAttempts
  timers,              \* delays (ms) of the pending setTimeout(connect) timers
  fails,               \* history: connection ends since the last successful
                       \* connect
  skippedAt,           \* history: index of the last frame of the current
                       \* connection whose payload did not parse, 0 for none
  lastFrame,           \* history: the frame ReadFrame dispatched last
  resp,                \* history: outcome of the latest POST .../permissions/:id
                       \* request: "none", "ok" or "error"
  chatResp,            \* per POST /chat request, in order: the response the
                       \* browser got, "streaming" or "error"
  sendResult,          \* per POST /chat request: its sendMessage call, "none"
                       \* (never made), "inflight", "accepted" or "rejected"
  posts,               \* history: POSTs made to the upstream's message endpoint
  textBuffer,          \* connect(): text read and not yet split into lines
  eventBuffer,         \* connect(): lines accumulated since the last blank line
  handed,              \* history: payloads handed to handleEvent by ReadChunk
  sent,                \* history: the text ReadChunk has read from the stream
  handleAll,           \* the POST .../permissions/handle-all request: its
                       \* position (pc), the entry's queue when its loop began
                       \* (start), whether the array its loop iterates is
                       \* still the entry's queue (live), the array's contents
                       \* once it is not (arr), the loop's index (idx), the
                       \* POSTs it made upstream (posted), and its handled
                       \* and failed lists
  sessionId,           \* Chat: the session the browser shows
  eventSource,         \* Chat: eventSourceRef.current, its session and its
                       \* readyState ("connecting", "open"), or NoSource
  requests             \* the browser's buffer/enable and buffer/disable
                       \* requests that have not reached the server yet

storeVars == <<state, now, pending>>
gateVars == <<buffering, buffered>>
\* connVars without log
connStatic == <<browserConnections, hpc, hsess, open, keepalive, abortListener,
                aborted>>
connVars == <<browserConnections, hpc, hsess, open, keepalive, abortListener,
              aborted, log>>
histVars == <<nEvents, nNotif, notified, regAt>>
feedVars == <<isConnecting, connects, reconnectAttempts, timers, fails, skippedAt,
              lastFrame>>
chatVars == <<chatResp, sendResult, posts>>
frameVars == <<textBuffer, eventBuffer, handed, sent>>
clientVars == <<sessionId, eventSource, requests>>
vars == <<storeVars, gateVars, connVars, histVars, feedVars, resp, chatVars,
          frameVars, handleAll, clientVars>>

\* Handles are named in the order in which the browsers connect.
HandleOrder(h) == IF h = "h1" THEN 1 ELSE 2

\* ----------------------------------------------------- downstream fan-out
\* JSON.stringify({ sessionId, state }) sent as one data frame. `n` and
\* `via` are bookkeeping: the notification the frame is for (0 for the
\* frame start() sends) and who sent it: "start" (the initial frame),
\* "listener" (a notification passed on at once) or "replay" (a held-back
\* notification passed on by disableBuffering).
Frame(sid, st, n, via) ==
  [sessionId |-> sid, state |-> st, n |-> n, via |-> via]

\* What goes on the wire for a frame.
Wire(f) == [sessionId |-> f.sessionId, state |-> f.state]

Connections(sid) ==
  IF sid \in DOMAIN browserConnections THEN browserConnections[sid] ELSE {}

\* Variant: the loop returns after the first controller.
BrowserListenerFirstOnly(logs, sid, frame) ==
  [h \in Handles |->
     IF /\ h \in Connections(sid) /\ open[h]
        /\ \A g \in Connections(sid) : HandleOrder(h) <= HandleOrder(g)
     THEN Append(logs[h], frame) ELSE logs[h]]

\* Variant: no try/catch around enqueue, so the first write that throws
\* ends the loop and the controllers after it are not served.
BrowserListenerStopsAtFailure(logs, sid, frame) ==
  [h \in Handles |->
     IF /\ h \in Connections(sid) /\ open[h]
        /\ \A g \in Connections(sid) :
             HandleOrder(g) < HandleOrder(h) => open[g]
     THEN Append(logs[h], frame) ELSE logs[h]]

\* Variant: the frame is enqueued on the controllers of every session.
BrowserListenerBroadcasts(logs, sid, frame) ==
  [h \in Handles |->
     IF (\E s \in Sessions : h \in Connections(s)) /\ open[h]
     THEN Append(logs[h], frame) ELSE logs[h]]

\* The listener the server registers with the client: enqueue the frame on
\* every controller of the session; an enqueue that throws is swallowed.
BrowserListener(logs, sid, frame) ==
  [h \in Handles |->
     IF h \in Connections(sid) /\ open[h]
     THEN Append(logs[h], frame) ELSE logs[h]]

\* Variant: the replay takes the newest held-back notification first.
RECURSIVE ReplayNewestFirst(_, _, _)
ReplayNewestFirst(logs, sid, notifs) ==
  IF notifs = <<>> THEN logs
  ELSE ReplayNewestFirst(
         BrowserListener(logs, sid,
                         Frame(sid, notifs[Len(notifs)].state,
                               notifs[Len(notifs)].n, "replay")),
         sid, SubSeq(notifs, 1, Len(notifs) - 1))

\* Replay of held-back notifications, oldest first.
RECURSIVE Replay(_, _, _)
Replay(logs, sid, notifs) ==
  IF notifs = <<>> THEN logs
  ELSE Replay(BrowserListener(logs, sid,
                              Frame(sid, Head(notifs).state, Head(notifs).n,
                                    "replay")),
              sid, Tail(notifs))

\* Variant: the gate ignores the flag.
GateNeverHolds(sid) == FALSE

\* The gate: a notification of a buffering session is held back.
GateHolds(sid) == sid \in buffering

\* notifyListeners(sessionId, state), through the gate.
NotifyListeners(sid, st) ==
  /\ nNotif' = nNotif + 1
  /\ notified' = [notified EXCEPT ![sid] = Append(@, nNotif + 1)]
  /\ IF GateHolds(sid)
     THEN /\ buffered' = [buffered EXCEPT
                            ![sid] = Append(@, [state |-> st, n |-> nNotif + 1])]
          /\ log' = log
     ELSE /\ log' = BrowserListener(log, sid, Frame(sid, st, nNotif + 1, "listener"))
          /\ buffered' = buffered


\* ------------------------------------------------------------ handleEvent
\* Variant: the listeners are notified with the entry as it was before the
\* branch was applied.
handleEventNotifiesStale(ev) ==
  LET sid == extractSessionId(ev) IN
  IF ev.type = None \/ sid = None
  THEN UNCHANGED <<state, buffered, log, nNotif, notified>>
  ELSE LET st0 == IF sid \in DOMAIN state THEN state[sid] ELSE NewState(now)
           r == MergeEvent(st0, ev)
           st1 == FinishMerge(r, now)
       IN /\ state' = MapPut(state, sid, st1)
          /\ IF r.updated
             THEN NotifyListeners(sid, st0)
             ELSE UNCHANGED <<buffered, log, nNotif, notified>>

\* Variant: the event is not dropped when no session id is found, and the
\* entry is created under the missing id.
handleEventKeepsUnroutable(ev) ==
  LET sid == extractSessionId(ev) IN
  IF ev.type = None
  THEN UNCHANGED <<state, buffered, log, nNotif, notified>>
  ELSE LET st0 == IF sid \in DOMAIN state THEN state[sid] ELSE NewState(now)
           r == MergeEvent(st0, ev)
           st1 == FinishMerge(r, now)
       IN /\ state' = MapPut(state, sid, st1)
          /\ IF r.updated /\ sid \in Sessions
             THEN NotifyListeners(sid, st1)
             ELSE UNCHANGED <<buffered, log, nNotif, notified>>

\* Variant: the entry is stamped and the listeners are notified whether or
\* not the branch updated the entry.
handleEventAlwaysNotifies(ev) ==
  LET sid == extractSessionId(ev) IN
  IF ev.type = None \/ sid = None
  THEN UNCHANGED <<state, buffered, log, nNotif, notified>>
  ELSE LET st0 == IF sid \in DOMAIN state THEN state[sid] ELSE NewState(now)
           r == MergeEvent(st0, ev)
           st1 == FinishMerge([st |-> r.st, updated |-> TRUE], now)
       IN /\ state' = MapPut(state, sid, st1)
          /\ NotifyListeners(sid, st1)

\* Variant: a removed message is not announced to the listeners.
handleEventSkipsRemoval(ev) ==
  LET sid == extractSessionId(ev) IN
  IF ev.type = None \/ sid = None
  THEN UNCHANGED <<state, buffered, log, nNotif, notified>>
  ELSE LET st0 == IF sid \in DOMAIN state THEN state[sid] ELSE NewState(now)
           r == MergeEvent(st0, ev)
           st1 == FinishMerge(r, now)
       IN /\ state' = MapPut(state, sid, st1)
          /\ IF r.updated /\ ev.type # "message.removed"
             THEN NotifyListeners(sid, st1)
             ELSE UNCHANGED <<buffered, log, nNotif, notified>>

\* handleEvent(event): drop an event without type or session id; otherwise
\* get or create the entry, apply the branch, and on an update stamp, sort
\* and notify.
handleEvent(ev) ==
  LET sid == extractSessionId(ev) IN
  IF ev.type = None \/ sid = None
  THEN UNCHANGED <<state, buffered, log, nNotif, notified>>
  ELSE LET st0 == IF sid \in DOMAIN state THEN state[sid] ELSE NewState(now)
           r == MergeEvent(st0, ev)
           st1 == FinishMerge(r, now)
       IN /\ state' = MapPut(state, sid, st1)
          /\ IF r.updated
             THEN NotifyListeners(sid, st1)
             ELSE UNCHANGED <<buffered, log, nNotif, notified>>

\* The events the upstream feed delivers in the fan-out specifications.
Events ==
  {MessageUpdated(s, "m1", 1) : s \in Sessions}
  \cup {PermissionUpdated("s1", "p1")}

\* The read loop of connect() hands one decoded event to handleEvent.
UpstreamEvent ==
  \E ev \in Events :
    /\ nEvents < MaxEvents
    /\ nEvents' = nEvents + 1
    /\ handleEvent(ev)
    /\ UNCHANGED <<feedVars, chatVars, frameVars, handleAll, clientVars, resp, now, pending, buffering, connStatic, regAt>>

\* -------------------------------------------------------- getSessionState
RECURSIVE ToolsOfParts(_, _)
ToolsOfParts(parts, acc) ==
  IF parts = <<>> THEN acc
  ELSE LET p == Head(parts) IN
       ToolsOfParts(Tail(parts),
         IF p.type = "tool" /\ p.callID # None /\ p.status # None
         THEN MapPut(acc, p.callID, ToolEntry(p)) ELSE acc)

RECURSIVE ToolsOfMessages(_, _)
ToolsOfMessages(messages, acc) ==
  IF messages = <<>> THEN acc
  ELSE ToolsOfMessages(Tail(messages), ToolsOfParts(Head(messages).parts, acc))

\* Variant: the stored entry carries no time of its own.
LoadedStateUnstamped(messages, t) ==
  LET sorted == SortMessages(messages) IN
  [messages |-> sorted,
   permissions |-> [byId |-> EmptyMap, queue |-> <<>>, activeId |-> None],
   toolsByCall |-> ToolsOfMessages(sorted, EmptyMap),
   lastUpdate |-> 0]

\* The entry getSessionState stores when the history fetch succeeds.
LoadedState(messages, t) ==
  LET sorted == SortMessages(messages) IN
  [messages |-> sorted,
   permissions |-> [byId |-> EmptyMap, queue |-> <<>>, activeId |-> None],
   toolsByCall |-> ToolsOfMessages(sorted, EmptyMap),
   lastUpdate |-> t]

\* The message history the upstream returns for a session.
Histories(s) ==
  {<<[info |-> [id |-> "m1", sessionID |-> s, created |-> 1],
      parts |-> <<>>]>>}

\* The store after getSessionState's first-load branch: the fetch result
\* replaces the entry when the response is OK, and changes nothing otherwise.
AfterFetch(st, s, ok, messages, t) ==
  IF ok THEN MapPut(st, s, LoadedState(messages, t)) ELSE st

\* Variant: the final sort also advances the entry's lastUpdate.
EnsureSortedTouches(st, s) ==
  [st EXCEPT ![s].messages = SortMessages(@), ![s].lastUpdate = @ + 1]

\* The final lines of getSessionState: sort the entry's messages in place.
EnsureSorted(st, s) == [st EXCEPT ![s].messages = SortMessages(@)]

\* ------------------------------------------------- /stream: start(controller)
\* Variant: the entry is set to a new set on every subscribe.
AddConnectionReplaces(conns, s, h) == MapPut(conns, s, {h})

AddConnection(conns, s, h) ==
  MapPut(conns, s, (IF s \in DOMAIN conns THEN conns[s] ELSE {}) \cup {h})

\* browserConnections.get(s)?.delete(h); delete the entry when it is empty.
RemoveConnection(conns, s, h) ==
  IF s \notin DOMAIN conns THEN conns
  ELSE IF conns[s] \ {h} = {} THEN MapRemove(conns, {s})
  ELSE [conns EXCEPT ![s] = @ \ {h}]

\* start() after getSessionState has returned: enqueue the initial frame,
\* install the keepalive interval and the abort listener. An enqueue that
\* throws rejects start() before either is installed.
SendInitial(h, s, st) ==
  IF open[h]
  THEN /\ log' = [log EXCEPT ![h] = Append(@, Frame(s, st, 0, "start"))]
       /\ keepalive' = [keepalive EXCEPT ![h] = TRUE]
       /\ abortListener' = [abortListener EXCEPT ![h] = TRUE]
       /\ hpc' = [hpc EXCEPT ![h] = "live"]
       /\ open' = open
  ELSE /\ hpc' = [hpc EXCEPT ![h] = "failed"]
       /\ UNCHANGED <<log, keepalive, abortListener, open>>

\* A browser opens /stream?sessionId=s. start() registers the controller and
\* calls getSessionState. With an entry in the store the call returns without
\* waiting on I/O and start() goes on in the same task; without one it waits
\* for the history fetch.
StreamStart(h, s) ==
  /\ hpc[h] = "idle"
  /\ \A g \in Handles : HandleOrder(g) < HandleOrder(h) => hpc[g] # "idle"
  /\ hsess' = [hsess EXCEPT ![h] = s]
  /\ regAt' = [regAt EXCEPT ![h] = nNotif]
  /\ browserConnections' = AddConnection(browserConnections, s, h)
  /\ IF s \in DOMAIN state
     THEN /\ state' = EnsureSorted(state, s)
          /\ SendInitial(h, s, state'[s])
     ELSE /\ hpc' = [hpc EXCEPT ![h] = "fetch"]
          /\ UNCHANGED <<state, log, keepalive, abortListener, open>>
  /\ UNCHANGED <<feedVars, chatVars, frameVars, handleAll, clientVars, resp, now, pending, gateVars, aborted, nEvents, nNotif, notified>>

\* The history fetch of a waiting start() completes. Without an entry after
\* the first-load branch, `state.messages` of undefined throws and start()
\* rejects: the stream is errored, nothing more is installed.
StreamFetched(h) ==
  /\ hpc[h] = "fetch"
  /\ \E ok \in BOOLEAN, messages \in Histories(hsess[h]) :
       LET s == hsess[h]
           st2 == AfterFetch(state, s, ok, messages, now)
       IN IF s \in DOMAIN st2
          THEN /\ state' = EnsureSorted(st2, s)
               /\ SendInitial(h, s, state'[s])
          ELSE /\ hpc' = [hpc EXCEPT ![h] = "rejected"]
               /\ open' = [open EXCEPT ![h] = FALSE]
               /\ UNCHANGED <<state, log, keepalive, abortListener>>
  /\ UNCHANGED <<feedVars, chatVars, frameVars, handleAll, clientVars, resp, now, pending, gateVars, browserConnections, hsess, aborted, histVars>>

\* The browser goes away: from now on enqueue on its controller throws.
ClientDisconnect(h) ==
  /\ hpc[h] \in {"fetch", "live"}
  /\ open[h]
  /\ open' = [open EXCEPT ![h] = FALSE]
  /\ UNCHANGED <<feedVars, chatVars, frameVars, handleAll, clientVars, resp, storeVars, gateVars, browserConnections, hpc, hsess, keepalive,
                 abortListener, aborted, log, histVars>>

\* Variant: the abort listener removes the controller and leaves the
\* interval running.
AbortSignalKeepsTimer(h) ==
  /\ hpc[h] # "idle"
  /\ ~open[h]
  /\ ~aborted[h]
  /\ aborted' = [aborted EXCEPT ![h] = TRUE]
  /\ IF abortListener[h]
     THEN /\ browserConnections' =
               RemoveConnection(browserConnections, hsess[h], h)
          /\ UNCHANGED keepalive
     ELSE UNCHANGED <<keepalive, browserConnections>>
  /\ UNCHANGED <<feedVars, chatVars, frameVars, handleAll, clientVars, resp, storeVars, gateVars, hpc, hsess, open, abortListener, log, histVars>>

\* req.signal fires "abort"; the listener, when installed, cleans up.
AbortSignal(h) ==
  /\ hpc[h] # "idle"
  /\ ~open[h]
  /\ ~aborted[h]
  /\ aborted' = [aborted EXCEPT ![h] = TRUE]
  /\ IF abortListener[h]
     THEN /\ keepalive' = [keepalive EXCEPT ![h] = FALSE]
          /\ browserConnections' =
               RemoveConnection(browserConnections, hsess[h], h)
     ELSE UNCHANGED <<keepalive, browserConnections>>
  /\ UNCHANGED <<feedVars, chatVars, frameVars, handleAll, clientVars, resp, storeVars, gateVars, hpc, hsess, open, abortListener, log, histVars>>

\* The keepalive interval fires: write the comment frame (it carries no
\* data and is not recorded in log); a write that throws clears the interval
\* and removes the controller.
KeepaliveTick(h) ==
  /\ keepalive[h]
  /\ IF open[h]
     THEN UNCHANGED <<keepalive, browserConnections>>
     ELSE /\ keepalive' = [keepalive EXCEPT ![h] = FALSE]
          /\ browserConnections' =
               RemoveConnection(browserConnections, hsess[h], h)
  /\ UNCHANGED <<feedVars, chatVars, frameVars, handleAll, clientVars, resp, storeVars, gateVars, hpc, hsess, open, abortListener, aborted,
                 log, histVars>>

\* ------------------------------------------------------------ buffering gate
\* Variant: enabling starts a new, empty buffer every time.
EnableBufferingResets(s) ==
  /\ buffering' = buffering \cup {s}
  /\ buffered' = [buffered EXCEPT ![s] = <<>>]
  /\ UNCHANGED <<feedVars, chatVars, frameVars, handleAll, clientVars, resp, storeVars, connVars, histVars>>

\* enableBuffering(sessionId): set the flag.
EnableBuffering(s) ==
  /\ buffering' = buffering \cup {s}
  /\ UNCHANGED <<feedVars, chatVars, frameVars, handleAll, clientVars, resp, buffered, storeVars, connVars, histVars>>

\* disableBuffering(sessionId): clear the flag, replay the held-back
\* notifications in order, clear the buffer.
DisableBuffering(s) ==
  /\ buffering' = buffering \ {s}
  /\ log' = Replay(log, s, buffered[s])
  /\ buffered' = [buffered EXCEPT ![s] = <<>>]
  /\ UNCHANGED <<feedVars, chatVars, frameVars, handleAll, clientVars, resp, storeVars, browserConnections, hpc, hsess, open, keepalive,
                 abortListener, aborted, histVars>>

\* ------------------------------------------------ Chat: the session switch
\* eventSourceRef.current before the first stream.
NoSource == [sid |-> None, readyState |-> "none"]

\* A request of the browser to one of the two buffer routes.
BufferRequest(kind, s) == [kind |-> kind, sid |-> s]

\* The stream effect of Chat runs for session s: when the previous stream
\* was for another session it POSTs buffer/enable for s without awaiting
\* the response, then it closes the previous stream and opens a new one.
RunStreamEffect(s) ==
  /\ requests' = IF eventSource.sid # None /\ eventSource.sid # s
                 THEN requests \cup {BufferRequest("enable", s)}
                 ELSE requests
  /\ eventSource' = [sid |-> s, readyState |-> "connecting"]

\* The browser switches to session s: setSessionId(s), and the stream
\* effect runs again.
SessionChange(s) ==
  /\ s # sessionId
  /\ sessionId' = s
  /\ RunStreamEffect(s)
  /\ UNCHANGED <<feedVars, chatVars, frameVars, handleAll, resp, storeVars,
                 gateVars, connVars, histVars>>

\* A state frame arrives on the open stream: serverState.lastUpdate is a
\* dependency of the stream effect, which runs again for the same session.
StateFrameArrives ==
  /\ eventSource.readyState = "open"
  /\ RunStreamEffect(sessionId)
  /\ UNCHANGED <<sessionId, feedVars, chatVars, frameVars, handleAll, resp,
                 storeVars, gateVars, connVars, histVars>>

\* eventSource.onopen: the stream of the current effect has opened, and the
\* browser POSTs buffer/disable for the effect's session.
StreamOpens ==
  /\ eventSource.readyState = "connecting"
  /\ eventSource' = [eventSource EXCEPT !.readyState = "open"]
  /\ requests' = requests \cup {BufferRequest("disable", eventSource.sid)}
  /\ UNCHANGED <<sessionId, feedVars, chatVars, frameVars, handleAll, resp,
                 storeVars, gateVars, connVars, histVars>>

\* The route /session/:sessionId/buffer/enable handles a request.
BufferEnableRoute(s) ==
  /\ BufferRequest("enable", s) \in requests
  /\ requests' = requests \ {BufferRequest("enable", s)}
  /\ buffering' = buffering \cup {s}
  /\ UNCHANGED <<sessionId, eventSource, feedVars, chatVars, frameVars,
                 handleAll, resp, buffered, storeVars, connVars, histVars>>

\* The route /session/:sessionId/buffer/disable handles a request.
BufferDisableRoute(s) ==
  /\ BufferRequest("disable", s) \in requests
  /\ requests' = requests \ {BufferRequest("disable", s)}
  /\ buffering' = buffering \ {s}
  /\ log' = Replay(log, s, buffered[s])
  /\ buffered' = [buffered EXCEPT ![s] = <<>>]
  /\ UNCHANGED <<sessionId, eventSource, feedVars, chatVars, frameVars,
                 handleAll, resp, storeVars, browserConnections, hpc, hsess,
                 open, keepalive, abortListener, aborted, histVars>>

\* ------------------------------------------------------ respondToPermission
\* state.permissions.byId[permissionId] of an existing entry is set.
Pending(s, p) == s \in DOMAIN state /\ p \in DOMAIN state[s].permissions.byId

\* Variant: the status of the upstream response is not looked at.
RespondToPermissionIgnoresStatus(s, p, ok) ==
  /\ IF Pending(s, p)
     THEN LET st1 == [state[s] EXCEPT
                        !.permissions = RemovePermission(@, p),
                        !.lastUpdate = now]
          IN /\ state' = [state EXCEPT ![s] = st1]
             /\ NotifyListeners(s, st1)
     ELSE UNCHANGED <<state, buffered, log, nNotif, notified>>
  /\ resp' = "ok"
  /\ UNCHANGED <<feedVars, chatVars, frameVars, handleAll, clientVars, now, pending, buffering, connStatic, nEvents, regAt>>

\* Variant: the entry is looked up with getOrCreateState.
RespondToPermissionCreatesEntry(s, p, ok) ==
  /\ IF ok /\ Pending(s, p)
     THEN LET st1 == [state[s] EXCEPT
                        !.permissions = RemovePermission(@, p),
                        !.lastUpdate = now]
          IN /\ state' = [state EXCEPT ![s] = st1]
             /\ NotifyListeners(s, st1)
     ELSE /\ state' = IF ok /\ s \notin DOMAIN state
                      THEN MapPut(state, s, NewState(now)) ELSE state
          /\ UNCHANGED <<buffered, log, nNotif, notified>>
  /\ resp' = IF ok THEN "ok" ELSE "error"
  /\ UNCHANGED <<feedVars, chatVars, frameVars, handleAll, clientVars, now, pending, buffering, connStatic, nEvents, regAt>>

\* POST /session/:s/permissions/:p calls respondToPermission, which forwards
\* the response; `ok` is the upstream's answer. Not OK: the call throws and
\* the route answers 500. OK: the entry, when it still holds the permission,
\* drops it, is stamped and the listeners are notified; the route answers
\* { success: true }.
RespondToPermission(s, p, ok) ==
  /\ IF ok /\ Pending(s, p)
     THEN LET st1 == [state[s] EXCEPT
                        !.permissions = RemovePermission(@, p),
                        !.lastUpdate = now]
          IN /\ state' = [state EXCEPT ![s] = st1]
             /\ NotifyListeners(s, st1)
     ELSE UNCHANGED <<state, buffered, log, nNotif, notified>>
  /\ resp' = IF ok THEN "ok" ELSE "error"
  /\ UNCHANGED <<feedVars, chatVars, frameVars, handleAll, clientVars, now, pending, buffering, connStatic, nEvents, regAt>>

\* ------------------------------------------------------------ POST /chat
\* The /chat handler, from the request to its response. Without a session
\* id it creates a session first and answers 500 when that fails. Otherwise
\* it starts sendMessage, which POSTs the message upstream, does not await
\* it, and answers {sessionId, streaming: true}.
ChatRequest(hasSession, createOk) ==
  /\ Len(chatResp) < MaxChats
  /\ IF ~hasSession /\ ~createOk
     THEN /\ chatResp' = Append(chatResp, "error")
          /\ sendResult' = Append(sendResult, "none")
          /\ posts' = posts
     ELSE /\ chatResp' = Append(chatResp, "streaming")
          /\ sendResult' = Append(sendResult, "inflight")
          /\ posts' = posts + 1
  /\ UNCHANGED <<storeVars, gateVars, connVars, histVars, feedVars, resp,
                 frameVars, handleAll, clientVars>>

\* The upstream answers the POST of sendMessage call i: on a non-OK answer
\* sendMessage throws, and the handler's .catch logs the error.
SendMessageDone(i, ok) ==
  /\ i \in 1..Len(sendResult)
  /\ sendResult[i] = "inflight"
  /\ sendResult' = [sendResult EXCEPT ![i] = IF ok THEN "accepted" ELSE "rejected"]
  /\ UNCHANGED <<chatResp, posts, storeVars, gateVars, connVars, histVars,
                 feedVars, resp, frameVars, handleAll, clientVars>>

\* ------------------------------------------------------ the store alone
ToolPart(id, m, call, status) ==
  [id |-> id, messageID |-> m, sessionID |-> "s1", type |-> "tool",
   callID |-> call, status |-> status]
TextPart(id, m) ==
  [id |-> id, messageID |-> m, sessionID |-> "s1", type |-> "text",
   callID |-> None, status |-> None]

\* permission.replied as the upstream documents it: properties {id, response}.
PermissionRepliedById(p) ==
  Ev("permission.replied", None, NoInfo, NoPart, None, None, None, p)

\* The events the upstream feed delivers in the store specification.
StoreEvents ==
  {MessageUpdated("s1", m, c) : m \in MsgIds, c \in {1, 2}}
  \cup {MessageRemoved("s1", m) : m \in MsgIds}
  \cup {PartUpdated(ToolPart("a", "m1", "c1", st)) : st \in {"running", "completed"}}
  \cup {PartUpdated(ToolPart("b", "m2", "c1", "running")),
        PartUpdated(TextPart("b", "m1"))}
  \cup {PartRemoved("s1", "m1", p) : p \in PartIds}
  \cup {PermissionUpdated(s, p) : s \in Sessions, p \in PermIds}
  \cup {PermissionReplied("s1", p) : p \in PermIds}
  \cup {PermissionRepliedById("p1"), OtherEvent("s2"), OtherEvent(None)}

StoreEvent ==
  \E ev \in StoreEvents :
    /\ nEvents < MaxStoreEvents
    /\ nEvents' = nEvents + 1
    /\ handleEvent(ev)
    /\ UNCHANGED <<feedVars, chatVars, frameVars, handleAll, clientVars, resp, now, pending, buffering, connStatic, regAt>>

\* GET /session/:id/state calls getSessionState. With an entry in the store
\* the call sorts it and returns; without one it waits for the history fetch.
StateRequest(s) ==
  /\ IF s \in DOMAIN state
     THEN /\ state' = EnsureSorted(state, s)
          /\ UNCHANGED pending
     ELSE /\ pending[s] < MaxPending
          /\ pending' = [pending EXCEPT ![s] = @ + 1]
          /\ UNCHANGED state
  /\ UNCHANGED <<feedVars, chatVars, frameVars, handleAll, clientVars, resp, now, gateVars, connVars, histVars>>

\* The history fetch of a waiting /state request completes. Without an
\* entry after the first-load branch the call throws.
StateFetchedFrom(s, histories) ==
  /\ pending[s] > 0
  /\ pending' = [pending EXCEPT ![s] = @ - 1]
  /\ \E ok \in BOOLEAN, messages \in histories :
       LET st2 == AfterFetch(state, s, ok, messages, now)
       IN IF s \in DOMAIN st2
          THEN state' = EnsureSorted(st2, s)
          ELSE state' = state
  /\ UNCHANGED <<feedVars, chatVars, frameVars, handleAll, clientVars, resp, now, gateVars, connVars, histVars>>

\* The same with the history the upstream returns for s.
StateFetched(s) == StateFetchedFrom(s, Histories(s))

\* ------------------------------------------------- connect() / reconnect()
\* Math.pow(2, k)
RECURSIVE Pow2(_)
Pow2(k) == IF k = 0 THEN 1 ELSE 2 * Pow2(k - 1)

Min(a, b) == IF a < b THEN a ELSE b

\* Math.min(1000 * Math.pow(2, this.reconnectAttempts), 30000)
BackoffDelay(attempts) == Min(1000 * Pow2(attempts), 30000)

\* A frame of the upstream feed as the read loop dispatches it: the joined
\* data payload, which is JSON text for an event or is not JSON.
NoEvent == Ev(None, None, NoInfo, NoPart, None, None, None, None)
NoFrame == [kind |-> "none", ev |-> NoEvent]
Malformed == [kind |-> "malformed", ev |-> NoEvent]
EventFrame(ev) == [kind |-> "json", ev |-> ev]

\* JSON.parse(dataPayload): the event, or a SyntaxError.
JSONParse(f) ==
  IF f.kind = "json" THEN [threw |-> FALSE, data |-> f.ev]
  ELSE [threw |-> TRUE, data |-> NoEvent]

\* An event without a type.
TypelessEvent(s) == Ev(None, s, NoInfo, NoPart, None, None, None, None)

\* The frames the upstream feed delivers in the feed specification.
FeedFrames ==
  {Malformed}
  \cup {EventFrame(PermissionUpdated("s1", p)) : p \in PermIds}
  \cup {EventFrame(PermissionReplied("s1", "p1")),
        EventFrame(PermissionRepliedById("p1")),
        EventFrame(MessageUpdated("s1", "m1", 1)),
        EventFrame(MessageUpdated(None, "m1", 1)),
        EventFrame(OtherEvent("s1")), EventFrame(OtherEvent("s2")),
        EventFrame(OtherEvent(None)), EventFrame(TypelessEvent("s1"))}

\* connect() up to its first await: return when a connect is in flight,
\* else set the flag and start the fetch.
ConnectCall ==
  IF isConnecting
  THEN UNCHANGED <<isConnecting, connects>>
  ELSE /\ isConnecting' = TRUE
       /\ connects' = Append(connects, "fetching")

\* Variant: the timer is set twice (once in the catch, once after finally).
ReconnectTwice(flag, attempts, tms) ==
  IF flag THEN [attempts |-> attempts, timers |-> tms]
  ELSE [attempts |-> attempts + 1,
        timers |-> tms \o <<BackoffDelay(attempts), BackoffDelay(attempts)>>]

\* Variant: connect() ends without calling reconnect().
ReconnectNever(flag, attempts, tms) ==
  [attempts |-> attempts, timers |-> tms]

\* reconnect(): return when a connect is in flight, else compute the delay,
\* count the attempt and set the timer.
Reconnect(flag, attempts, tms) ==
  IF flag THEN [attempts |-> attempts, timers |-> tms]
  ELSE [attempts |-> attempts + 1,
        timers |-> Append(tms, BackoffDelay(attempts))]

\* The end of a connect() execution: the finally block clears the flag and
\* reconnect() runs, with `attempts` the counter at that point and `ends`
\* the connection ends counted so far.
ConnectExit(i, attempts, ends) ==
  LET r == Reconnect(FALSE, attempts, timers) IN
  /\ connects' = RemoveAt(connects, i)
  /\ isConnecting' = FALSE
  /\ reconnectAttempts' = r.attempts
  /\ timers' = r.timers
  /\ fails' = ends + 1
  /\ skippedAt' = 0

\* A reconnect timer fires and calls connect().
TimerFires ==
  \E i \in 1..Len(timers) :
    /\ timers' = RemoveAt(timers, i)
    /\ ConnectCall
    /\ UNCHANGED <<reconnectAttempts, fails, skippedAt, lastFrame, resp, chatVars, frameVars, handleAll, clientVars,
                   storeVars, gateVars, connVars, histVars>>

\* The fetch of /event fails: it throws or answers non-OK (the counter is
\* left alone), or answers OK without a body (the counter is reset first).
ConnectFails(i) ==
  /\ connects[i] = "fetching"
  /\ reconnectAttempts < MaxAttempts
  /\ \E reason \in {"throws", "status", "nobody"} :
       IF reason = "nobody"
       THEN ConnectExit(i, 0, 0)
       ELSE ConnectExit(i, reconnectAttempts, fails)
  /\ UNCHANGED <<lastFrame, resp, chatVars, frameVars, handleAll, clientVars, storeVars, gateVars, connVars, histVars>>

\* Variant: a successful connect leaves the counter as it is.
ConnectSucceedsKeepsCounter(i) ==
  /\ connects[i] = "fetching"
  /\ connects' = [connects EXCEPT ![i] = "reading"]
  /\ fails' = 0
  /\ skippedAt' = 0
  /\ UNCHANGED <<reconnectAttempts, isConnecting, timers, lastFrame, resp, chatVars, frameVars, handleAll, clientVars,
                 storeVars, gateVars, connVars, histVars>>

\* The fetch answers OK with a body: the counter is reset and the read loop
\* starts.
ConnectSucceeds(i) ==
  /\ connects[i] = "fetching"
  /\ connects' = [connects EXCEPT ![i] = "reading"]
  /\ reconnectAttempts' = 0
  /\ fails' = 0
  /\ skippedAt' = 0
  /\ UNCHANGED <<isConnecting, timers, lastFrame, resp, chatVars, frameVars, handleAll, clientVars,
                 storeVars, gateVars, connVars, histVars>>

\* The read ends: reader.read() reports done or throws.
StreamEnds(i) ==
  /\ connects[i] = "reading"
  /\ reconnectAttempts < MaxAttempts
  /\ ConnectExit(i, reconnectAttempts, fails)
  /\ UNCHANGED <<lastFrame, resp, chatVars, frameVars, handleAll, clientVars, storeVars, gateVars, connVars, histVars>>

\* ------------------------------------- POST .../permissions/handle-all
\* The session of the handle-all request.
HandleAllSession == "s1"

\* No handle-all request has been made.
NoHandleAll ==
  [pc |-> "idle", start |-> <<>>, live |-> TRUE, arr |-> <<>>, idx |-> 1,
   posted |-> <<>>, absent |-> {}, handled |-> <<>>, failed |-> <<>>]

\* queue.push(id) appends to the array in place; queue.filter(...) makes a
\* new array and leaves the old one as it was.
KeepsArray(q, q2) ==
  \/ q2 = q
  \/ Len(q2) = Len(q) + 1 /\ SubSeq(q2, 1, Len(q)) = q

\* The array the for-of loop of handle-all iterates, across a change of the
\* store from st to st2: while permissions.queue is the same array the loop
\* sees its pushes; once a removal has assigned a new array the loop is left
\* with the old one.
LoopArray(ha, st, st2) ==
  IF ha.pc # "loop" \/ ~ha.live THEN ha
  ELSE LET q == st[HandleAllSession].permissions.queue
           q2 == st2[HandleAllSession].permissions.queue
       IN IF KeepsArray(q, q2) THEN ha
          ELSE [ha EXCEPT !.live = FALSE, !.arr = q]

\* The entry's queue as the loop starts on it.
LoopStart(ha, st) ==
  [ha EXCEPT !.pc = "loop",
             !.start = st[HandleAllSession].permissions.queue]

\* The handler calls getSessionState: with an entry in the store the call
\* sorts it and returns it; without one it waits for the history fetch.
HandleAllRequest ==
  /\ handleAll.pc = "idle"
  /\ IF HandleAllSession \in DOMAIN state
     THEN /\ state' = EnsureSorted(state, HandleAllSession)
          /\ handleAll' = LoopStart(handleAll, state')
     ELSE /\ handleAll' = [handleAll EXCEPT !.pc = "fetch"]
          /\ UNCHANGED state
  /\ UNCHANGED <<feedVars, chatVars, frameVars, clientVars, resp, now, pending, gateVars,
                 connVars, histVars>>

\* The history fetch of the handler's getSessionState call completes; the
\* call throws when there is no entry after the first-load branch.
HandleAllFetched ==
  /\ handleAll.pc = "fetch"
  /\ \E ok \in BOOLEAN, messages \in Histories(HandleAllSession) :
       LET st2 == AfterFetch(state, HandleAllSession, ok, messages, now)
       IN IF HandleAllSession \in DOMAIN st2
          THEN /\ state' = EnsureSorted(st2, HandleAllSession)
               /\ handleAll' = LoopStart(handleAll, state')
          ELSE /\ state' = state
               /\ handleAll' = [handleAll EXCEPT !.pc = "threw"]
  /\ UNCHANGED <<feedVars, chatVars, frameVars, clientVars, resp, now, pending, gateVars,
                 connVars, histVars>>

\* The array the loop iterates.
Iterated(ha, st) ==
  IF ha.live THEN st[HandleAllSession].permissions.queue ELSE ha.arr

\* The loop runs to its next await: it passes the ids that are no longer in
\* byId, POSTs the response for the first id that is, and files the id under
\* handled or failed by the upstream's answer; at the end of the array the
\* handler returns its counts.
HandleAllTurn(upOk) ==
  LET arr == Iterated(handleAll, state)
      byId == state[HandleAllSession].permissions.byId
      turns == {k \in handleAll.idx..Len(arr) : arr[k] \in DOMAIN byId}
  IN /\ handleAll.pc = "loop"
     /\ IF turns = {}
        THEN handleAll' = [handleAll EXCEPT
               !.pc = "done",
               !.idx = Len(arr) + 1,
               !.absent = @ \cup {arr[j] : j \in handleAll.idx..Len(arr)}]
        ELSE LET k == CHOOSE k \in turns : \A j \in turns : k <= j
             IN handleAll' = [handleAll EXCEPT
                  !.idx = k + 1,
                  !.absent = @ \cup {arr[j] : j \in handleAll.idx..(k - 1)},
                  !.posted = Append(@, arr[k]),
                  !.handled = IF upOk THEN Append(@, arr[k]) ELSE @,
                  !.failed = IF upOk THEN @ ELSE Append(@, arr[k])]
     /\ UNCHANGED <<feedVars, chatVars, frameVars, clientVars, resp, storeVars, gateVars,
                    connVars, histVars>>

\* Variant: a payload that does not parse ends the read loop.
ReadFrameThrows(i, f) ==
  /\ connects[i] = "reading"
  /\ nEvents < MaxFrames
  /\ nEvents' = nEvents + 1
  /\ lastFrame' = f
  /\ IF JSONParse(f).threw
     THEN /\ ConnectExit(i, reconnectAttempts, fails)
          /\ UNCHANGED <<state, buffered, log, nNotif, notified>>
     ELSE /\ handleEvent(JSONParse(f).data)
          /\ UNCHANGED <<isConnecting, connects, reconnectAttempts, timers,
                         fails, skippedAt>>
  /\ UNCHANGED <<resp, chatVars, frameVars, handleAll, clientVars, now, pending, buffering, connStatic, regAt>>

\* The read loop dispatches one frame: parse the payload and hand the event
\* to handleEvent; a payload that does not parse is logged and skipped.
ReadFrame(i, f) ==
  /\ connects[i] = "reading"
  /\ nEvents < MaxFrames
  /\ nEvents' = nEvents + 1
  /\ lastFrame' = f
  /\ IF JSONParse(f).threw
     THEN /\ skippedAt' = nEvents + 1
          /\ UNCHANGED <<state, buffered, log, nNotif, notified>>
     ELSE /\ handleEvent(JSONParse(f).data)
          /\ UNCHANGED skippedAt
  /\ handleAll' = LoopArray(handleAll, state, state')
  /\ UNCHANGED <<isConnecting, connects, reconnectAttempts, timers, fails,
                 resp, chatVars, frameVars, clientVars, now, pending, buffering, connStatic, regAt>>

\* ------------------------------------------------- connect(): the read loop
\* The text of the upstream stream, as a sequence of pieces: a data line
\* that carries the JSON text of one event, a comment line, a line without
\* a known field name, and the line terminator.
TokX == "data: p1"
TokY == "data: p2"
TokC == ":"
TokJ == "junk"
NL == "\n"
Tokens == {TokX, TokY, TokC, TokJ, NL}

\* The sizes of the chunks reader.read() returns.
ChunkSizes == {1, 2}
Chunks == UNION {[1..n -> Tokens] : n \in ChunkSizes}

\* textBuffer.indexOf("\n"); 0 when absent (JS: -1).
IndexOfNL(text) ==
  IF \E i \in 1..Len(text) : text[i] = NL
  THEN CHOOSE i \in 1..Len(text) :
         text[i] = NL /\ \A j \in 1..(i-1) : text[j] # NL
  ELSE 0

\* line.startsWith("data:")
IsDataLine(line) == line # <<>> /\ line[1] \in {TokX, TokY}

\* The lines the loop accumulates: data:, event:, id:, retry: and comments.
IsFieldLine(line) == line # <<>> /\ line[1] \in {TokX, TokY, TokC}

\* l.slice(5).trimStart()
SliceData(line) ==
  <<IF line[1] = TokX THEN "p1" ELSE "p2">> \o Tail(line)

\* eventBuffer.filter(data lines).map(slice): the payload lines that
\* join("\n") puts together.
RECURSIVE DataPayload(_)
DataPayload(lines) ==
  IF lines = <<>> THEN <<>>
  ELSE IF IsDataLine(Head(lines))
       THEN <<SliceData(Head(lines))>> \o DataPayload(Tail(lines))
       ELSE DataPayload(Tail(lines))

\* JSON.parse(dataPayload): the payload is JSON when it is one line that is
\* the JSON text of an event; anything else is a SyntaxError.
ParsePayload(payload) ==
  IF payload = << <<"p1">> >>
  THEN [threw |-> FALSE, data |-> PermissionUpdated("s1", "p1")]
  ELSE IF payload = << <<"p2">> >>
  THEN [threw |-> FALSE, data |-> PermissionUpdated("s1", "p2")]
  ELSE [threw |-> TRUE, data |-> NoEvent]

\* The inner loop of connect(): take complete lines off the text; a blank
\* line dispatches the accumulated payload, a field line is accumulated,
\* any other line is dropped. `out` collects the events handed on.
RECURSIVE Drain(_, _, _)
Drain(text, lines, out) ==
  LET idx == IndexOfNL(text) IN
  IF idx = 0 THEN [text |-> text, lines |-> lines, out |-> out]
  ELSE LET line == SubSeq(text, 1, idx - 1)
           rest == SubSeq(text, idx + 1, Len(text))
       IN IF line = <<>>
          THEN LET payload == DataPayload(lines) IN
               IF payload = <<>> \/ ParsePayload(payload).threw
               THEN Drain(rest, <<>>, out)
               ELSE Drain(rest, <<>>, Append(out, ParsePayload(payload).data))
          ELSE Drain(rest,
                     IF IsFieldLine(line) THEN Append(lines, line) ELSE lines,
                     out)

\* handleEvent and notifyListeners as functions of the store and the
\* fan-out state `acc`, for the events of one chunk in turn.
HandleOne(acc, ev) ==
  LET sid == extractSessionId(ev) IN
  IF ev.type = None \/ sid = None THEN acc
  ELSE LET st0 == IF sid \in DOMAIN acc.state THEN acc.state[sid]
                  ELSE NewState(now)
           r == MergeEvent(st0, ev)
           st1 == FinishMerge(r, now)
           n == acc.nNotif + 1
       IN IF ~r.updated THEN [acc EXCEPT !.state = MapPut(acc.state, sid, st1)]
          ELSE [state |-> MapPut(acc.state, sid, st1),
                nNotif |-> n,
                notified |-> [acc.notified EXCEPT ![sid] = Append(@, n)],
                buffered |-> IF GateHolds(sid)
                             THEN [acc.buffered EXCEPT
                                     ![sid] = Append(@, [state |-> st1, n |-> n])]
                             ELSE acc.buffered,
                log |-> IF GateHolds(sid) THEN acc.log
                        ELSE BrowserListener(acc.log, sid,
                                             Frame(sid, st1, n, "listener"))]

RECURSIVE HandleAll(_, _)
HandleAll(acc, events) ==
  IF events = <<>> THEN acc
  ELSE HandleAll(HandleOne(acc, Head(events)), Tail(events))

\* Variant: the accumulated lines are a local of the outer loop body, empty
\* at the start of every chunk.
ReadChunkForgetsLines(i, chunk) ==
  LET d == Drain(textBuffer \o chunk, <<>>, <<>>)
      acc == HandleAll([state |-> state, nNotif |-> nNotif,
                        notified |-> notified, buffered |-> buffered,
                        log |-> log], d.out)
  IN /\ connects[i] = "reading"
     /\ Len(sent) + Len(chunk) <= MaxText
     /\ sent' = sent \o chunk
     /\ textBuffer' = d.text
     /\ eventBuffer' = d.lines
     /\ handed' = handed \o d.out
     /\ nEvents' = nEvents + Len(d.out)
     /\ state' = acc.state
     /\ nNotif' = acc.nNotif
     /\ notified' = acc.notified
     /\ buffered' = acc.buffered
     /\ log' = acc.log
     /\ UNCHANGED <<feedVars, chatVars, handleAll, clientVars, resp, now, pending,
                    buffering, connStatic, regAt>>

\* reader.read() returns a chunk: append it to the text buffer and run the
\* inner loop, which hands every decoded event to handleEvent.
ReadChunk(i, chunk) ==
  LET d == Drain(textBuffer \o chunk, eventBuffer, <<>>)
      acc == HandleAll([state |-> state, nNotif |-> nNotif,
                        notified |-> notified, buffered |-> buffered,
                        log |-> log], d.out)
  IN /\ connects[i] = "reading"
     /\ Len(sent) + Len(chunk) <= MaxText
     /\ sent' = sent \o chunk
     /\ textBuffer' = d.text
     /\ eventBuffer' = d.lines
     /\ handed' = handed \o d.out
     /\ nEvents' = nEvents + Len(d.out)
     /\ state' = acc.state
     /\ nNotif' = acc.nNotif
     /\ notified' = acc.notified
     /\ buffered' = acc.buffered
     /\ log' = acc.log
     /\ UNCHANGED <<feedVars, chatVars, handleAll, clientVars, resp, now, pending,
                    buffering, connStatic, regAt>>

\* Time passes: Date.now() returns a later value.
Tick ==
  /\ now < MaxClock
  /\ now' = now + 1
  /\ UNCHANGED <<state, pending, gateVars, connVars, histVars, feedVars, chatVars, frameVars, handleAll, clientVars, resp>>

\* ------------------------------------------------------------ specification
\* The state after construction, once the first connect() has reached its
\* read loop.
Init ==
  /\ state = EmptyMap
  /\ now = 1
  /\ pending = [s \in Sessions |-> 0]
  /\ buffering = {}
  /\ buffered = [s \in Sessions |-> <<>>]
  /\ browserConnections = EmptyMap
  /\ hpc = [h \in Handles |-> "idle"]
  /\ hsess = [h \in Handles |-> None]
  /\ open = [h \in Handles |-> TRUE]
  /\ keepalive = [h \in Handles |-> FALSE]
  /\ abortListener = [h \in Handles |-> FALSE]
  /\ aborted = [h \in Handles |-> FALSE]
  /\ log = [h \in Handles |-> <<>>]
  /\ nEvents = 0
  /\ nNotif = 0
  /\ notified = [s \in Sessions |-> <<>>]
  /\ regAt = [h \in Handles |-> 0]
  /\ isConnecting = TRUE
  /\ connects = <<"reading">>
  /\ reconnectAttempts = 0
  /\ timers = <<>>
  /\ fails = 0
  /\ skippedAt = 0
  /\ lastFrame = NoFrame
  /\ resp = "none"
  /\ chatResp = <<>>
  /\ sendResult = <<>>
  /\ posts = 0
  /\ textBuffer = <<>>
  /\ eventBuffer = <<>>
  /\ handed = <<>>
  /\ sent = <<>>
  /\ handleAll = NoHandleAll
  /\ sessionId = None
  /\ eventSource = NoSource
  /\ requests = {}

\* The proxy as the sources under src/ have it: store, fan-out and streams.
\* The browsers answer the permissions that are pending, and the upstream
\* accepts the answers.
Next ==
  \/ UpstreamEvent
  \/ \E h \in Handles, s \in Sessions : StreamStart(h, s)
  \/ \E h \in Handles : StreamFetched(h)
  \/ \E h \in Handles : ClientDisconnect(h)
  \/ \E h \in Handles : AbortSignal(h)
  \/ \E h \in Handles : KeepaliveTick(h)
  \/ \E s \in Sessions, p \in PermIds :
       Pending(s, p) /\ RespondToPermission(s, p, TRUE)

Spec == Init /\ [][Next]_vars

\* The buffering gate between the dispatcher and subscribers that stay
\* connected.  A run makes up to MaxEvents notifications before its last
\* permission response.
NextGate ==
  \/ UpstreamEvent
  \/ \E h \in Handles, s \in Sessions : StreamStart(h, s)
  \/ \E h \in Handles : StreamFetched(h)
  \/ \E s \in Sessions : EnableBuffering(s)
  \/ \E s \in Sessions : DisableBuffering(s)
  \/ \E s \in Sessions, p \in PermIds :
       nNotif < MaxEvents /\ Pending(s, p) /\ RespondToPermission(s, p, TRUE)

SpecGate == Init /\ [][NextGate]_vars

\* The store alone: every event kind, /state requests and permission
\* responses, given as in Next.
NextStore ==
  \/ StoreEvent
  \/ \E s \in Sessions : StateRequest(s)
  \/ \E s \in Sessions : StateFetched(s)
  \/ \E s \in Sessions, p \in PermIds :
       Pending(s, p) /\ RespondToPermission(s, p, TRUE)

SpecStore == Init /\ [][NextStore]_vars

\* The frames the upstream feed delivers in the permission specification.
PermFrames ==
  {EventFrame(PermissionUpdated(s, p)) : s \in Sessions, p \in PermIds}
  \cup {EventFrame(PermissionReplied("s1", "p1")),
        EventFrame(OtherEvent("s2"))}

\* The permission queue: announcements and replies read from the feed, and
\* responses of the browsers to any id, which the upstream accepts or
\* rejects.
NextPerm ==
  \/ \E f \in PermFrames : ReadFrame(1, f)
  \/ \E s \in Sessions, p \in PermIds, ok \in BOOLEAN :
       RespondToPermission(s, p, ok)
  \/ Tick

SpecPerm == Init /\ [][NextPerm]_vars

\* The browser switching between sessions, its streams opening, and its
\* buffer requests reaching the server in any order; the feed goes on.
NextSwitch ==
  \/ \E s \in Sessions : SessionChange(s)
  \/ StateFrameArrives
  \/ StreamOpens
  \/ \E s \in Sessions : BufferEnableRoute(s)
  \/ \E s \in Sessions : BufferDisableRoute(s)
  \/ UpstreamEvent

SpecSwitch == Init /\ [][NextSwitch]_vars

\* The frames the upstream feed delivers while handle-all runs.
HandleAllFrames ==
  {EventFrame(PermissionUpdated(HandleAllSession, p)) : p \in PermIds}
  \cup {EventFrame(PermissionReplied(HandleAllSession, p)) : p \in PermIds}

\* One handle-all request while the feed announces and retires permissions.
NextHandleAll ==
  \/ \E f \in HandleAllFrames : ReadFrame(1, f)
  \/ HandleAllRequest
  \/ HandleAllFetched
  \/ \E upOk \in BOOLEAN : HandleAllTurn(upOk)

SpecHandleAll == Init /\ [][NextHandleAll]_vars

\* The frames the upstream feed delivers in the tool-call specification; a
\* tool part of status None is a part without a state. Every call id and every part id belongs to one part.
ToolFrames ==
  {EventFrame(MessageUpdated("s1", "m1", 1)),
   EventFrame(MessageUpdated("s1", "m2", 2)),
   EventFrame(MessageRemoved("s1", "m1")),
   EventFrame(PartUpdated(ToolPart("b", "m2", "c2", "running"))),
   EventFrame(PartRemoved("s1", "m1", "a")),
   EventFrame(PartRemoved("s1", "m2", "b"))}
  \cup {EventFrame(PartUpdated(ToolPart("a", "m1", "c1", st))) :
          st \in {None, "running", "completed"}}

\* Message histories with tool parts, as the first load receives them.
ToolHistories ==
  {<<[info |-> [id |-> "m2", sessionID |-> "s1", created |-> 2],
      parts |-> <<ToolPart("b", "m2", "c2", "running")>>],
     [info |-> [id |-> "m1", sessionID |-> "s1", created |-> 1],
      parts |-> <<ToolPart("a", "m1", "c1", st)>>]>> :
     st \in {None, "completed"}}

\* The tool-call index: messages and parts read from the feed, and the
\* first load of a history that has tool parts.
NextTools ==
  \/ \E f \in ToolFrames : ReadFrame(1, f)
  \/ StateRequest("s1")
  \/ StateFetchedFrom("s1", ToolHistories)

SpecTools == Init /\ [][NextTools]_vars

\* The frames the upstream feed delivers in the clock specification.
ClockFrames ==
  {EventFrame(PermissionUpdated("s1", p)) : p \in PermIds}
  \cup {EventFrame(OtherEvent("s1"))}

\* Everything that stamps lastUpdate, interleaved with the clock: event
\* merges, the first load of getSessionState and permission responses.
NextClock ==
  \/ \E f \in ClockFrames : ReadFrame(1, f)
  \/ StateRequest("s1")
  \/ StateFetched("s1")
  \/ \E p \in PermIds, ok \in BOOLEAN : RespondToPermission("s1", p, ok)
  \/ Tick

SpecClock == Init /\ [][NextClock]_vars

\* The frames the upstream feed delivers in the command specification.
CmdFrames == {EventFrame(PermissionUpdated("s1", "p1"))}

\* The commands: permission responses and message sends, which the
\* upstream accepts or rejects, next to the feed.
NextCmd ==
  \/ \E f \in CmdFrames : ReadFrame(1, f)
  \/ \E ok \in BOOLEAN : RespondToPermission("s1", "p1", ok)
  \/ \E hasSession, createOk \in BOOLEAN : ChatRequest(hasSession, createOk)
  \/ \E i \in 1..MaxChats, ok \in BOOLEAN : SendMessageDone(i, ok)

SpecCmd == Init /\ [][NextCmd]_vars

\* The frames the upstream feed delivers in the notification specification.
NotifyFrames ==
  {EventFrame(PermissionUpdated("s1", "p1")),
   EventFrame(PermissionReplied("s1", "p1")),
   EventFrame(MessageUpdated("s1", "m1", 1)),
   EventFrame(MessageRemoved("s1", "m1")),
   EventFrame(OtherEvent("s1"))}

\* The dispatcher: events of s1 read from the feed while browsers subscribe
\* to s1.
NextNotify ==
  \/ \E f \in NotifyFrames : ReadFrame(1, f)
  \/ \E h \in Handles : StreamStart(h, "s1")
  \/ \E h \in Handles : StreamFetched(h)

SpecNotify == Init /\ [][NextNotify]_vars

\* The read loop of one connection, chunk by chunk, until the stream ends.
NextFrame ==
  \/ \E i \in 1..Len(connects), chunk \in Chunks : ReadChunk(i, chunk)
  \/ \E i \in 1..Len(connects) : StreamEnds(i)

SpecFrame == Init /\ [][NextFrame]_vars

\* The state after construction: the constructor has called connect().
InitFeed ==
  /\ state = EmptyMap
  /\ now = 1
  /\ pending = [s \in Sessions |-> 0]
  /\ buffering = {}
  /\ buffered = [s \in Sessions |-> <<>>]
  /\ browserConnections = EmptyMap
  /\ hpc = [h \in Handles |-> "idle"]
  /\ hsess = [h \in Handles |-> None]
  /\ open = [h \in Handles |-> TRUE]
  /\ keepalive = [h \in Handles |-> FALSE]
  /\ abortListener = [h \in Handles |-> FALSE]
  /\ aborted = [h \in Handles |-> FALSE]
  /\ log = [h \in Handles |-> <<>>]
  /\ nEvents = 0
  /\ nNotif = 0
  /\ notified = [s \in Sessions |-> <<>>]
  /\ regAt = [h \in Handles |-> 0]
  /\ isConnecting = TRUE
  /\ connects = <<"fetching">>
  /\ reconnectAttempts = 0
  /\ timers = <<>>
  /\ fails = 0
  /\ skippedAt = 0
  /\ lastFrame = NoFrame
  /\ resp = "none"
  /\ chatResp = <<>>
  /\ sendResult = <<>>
  /\ posts = 0
  /\ textBuffer = <<>>
  /\ eventBuffer = <<>>
  /\ handed = <<>>
  /\ sent = <<>>
  /\ handleAll = NoHandleAll
  /\ sessionId = None
  /\ eventSource = NoSource
  /\ requests = {}

\* The ingester: the connect/reconnect cycle and the read loop feeding the
\* store.
NextFeed ==
  \/ TimerFires
  \/ \E i \in 1..Len(connects) : ConnectFails(i)
  \/ \E i \in 1..Len(connects) : ConnectSucceeds(i)
  \/ \E i \in 1..Len(connects) : StreamEnds(i)
  \/ \E i \in 1..Len(connects), f \in FeedFrames : ReadFrame(i, f)
  \/ Tick

\* A timer that is set fires.
SpecFeed == InitFeed /\ [][NextFeed]_vars /\ WF_vars(TimerFires)


\* ===================================================================== claims
\* Bookkeeping readers used by the properties below.

\* The notification ids, in log order, of the frames after notification k
\* that were not sent by start().
RECURSIVE MutationIds(_, _)
MutationIds(frames, k) ==
  IF frames = <<>> THEN <<>>
  ELSE (IF Head(frames).via # "start" /\ Head(frames).n > k
        THEN <<Head(frames).n>> ELSE <<>>) \o MutationIds(Tail(frames), k)

\* The same frames with what went on the wire for each.
RECURSIVE FramesAfter(_, _)
FramesAfter(frames, k) ==
  IF frames = <<>> THEN <<>>
  ELSE (IF Head(frames).via # "start" /\ Head(frames).n > k
        THEN <<[n |-> Head(frames).n, wire |-> Wire(Head(frames))]>>
        ELSE <<>>) \o FramesAfter(Tail(frames), k)

RECURSIVE IdsAfter(_, _)
IdsAfter(ids, k) ==
  IF ids = <<>> THEN <<>>
  ELSE (IF Head(ids) > k THEN <<Head(ids)>> ELSE <<>>) \o IdsAfter(Tail(ids), k)

RECURSIVE HeldIds(_, _)
HeldIds(notifs, k) ==
  IF notifs = <<>> THEN <<>>
  ELSE (IF Head(notifs).n > k THEN <<Head(notifs).n>> ELSE <<>>)
       \o HeldIds(Tail(notifs), k)

\* h is registered and its controller still accepts frames.
Subscribed(h) == hpc[h] \in {"fetch", "live"} /\ open[h]

MaxOf(a, b) == IF a > b THEN a ELSE b

\* ---- C1
\* C1: whenever the gate of session S is off (in particular right after
\* disableBuffering(S) flushed what was held since enableBuffering(S)),
\* every subscriber connected to S has received exactly the notifications
\* made for S since it registered: each once, none missing, in merge order.
C1_FlushedExactlyOnceInOrder ==
  \A h \in Handles :
    (Subscribed(h) /\ hsess[h] \notin buffering) =>
      MutationIds(log[h], regAt[h]) = IdsAfter(notified[hsess[h]], regAt[h])

\* A subscriber that was connected before two notifications were held back
\* has received both by replay.
C1_Witness ==
  \E h \in Handles :
    /\ hpc[h] = "live" /\ open[h] /\ hsess[h] \notin buffering
    /\ \E i, j \in 1..Len(log[h]) :
         /\ i < j
         /\ log[h][i].via = "replay" /\ log[h][j].via = "replay"
         /\ log[h][i].n > regAt[h]

\* ---- C2
\* C2: in a step that makes a notification for a session whose buffering
\* flag is set, no frame is delivered to any subscriber and the notification
\* is appended to the end of the session's buffer.
C2_HeldWhileBuffering ==
  [][\A s \in Sessions :
       (s \in buffering /\ notified'[s] # notified[s]) =>
         /\ buffered'[s] = Append(buffered[s], [state |-> state'[s], n |-> nNotif'])
         /\ log' = log]_vars

\* Two notifications are held for a session that has a connected subscriber.
C2_Witness ==
  \E s \in Sessions, h \in Handles :
    /\ s \in buffering /\ Len(buffered[s]) >= 2
    /\ hpc[h] = "live" /\ open[h] /\ hsess[h] = s
    /\ regAt[h] < buffered[s][1].n

\* ---- C3
\* C3: enableBuffering on a session that is already buffering changes neither
\* the flag nor the buffer nor any subscriber's frames, and disableBuffering
\* on a session with an empty buffer delivers no frame.
C3_GateIdempotent ==
  [][\A s \in Sessions :
       /\ (s \in buffering /\ EnableBuffering(s)) =>
            UNCHANGED <<buffering, buffered, log>>
       /\ (buffered[s] = <<>> /\ DisableBuffering(s)) => log' = log]_vars

\* After a flush (a subscriber holds a replayed frame) the gate is off and
\* the buffer empty, while another session is buffering with a held
\* notification: a second disable and a second enable both apply.
C3_Witness ==
  \E s, t \in Sessions, h \in Handles :
    /\ s \notin buffering /\ buffered[s] = <<>>
    /\ hsess[h] = s /\ \E i \in 1..Len(log[h]) : log[h][i].via = "replay"
    /\ t \in buffering /\ buffered[t] # <<>>

\* ---- C4
\* C4: in a step that makes a notification for a session whose buffering
\* flag is not set (never set, or cleared by disableBuffering), nothing is
\* held back and every connected subscriber of the session gets, in that
\* same step, the frame of the session's state after the merge.
C4_PassThrough ==
  [][\A s \in Sessions :
       (s \notin buffering /\ notified'[s] # notified[s]) =>
         /\ buffered' = buffered
         /\ \A h \in Connections(s) :
              open[h] =>
                log'[h] = Append(log[h], Frame(s, state'[s], nNotif', "listener"))]_vars

\* A subscriber received a replayed frame and, after it, a frame passed on at
\* once: live delivery resumed after the flush.
C4_Witness ==
  \E h \in Handles :
    /\ hpc[h] = "live" /\ hsess[h] \notin buffering
    /\ \E i, j \in 1..Len(log[h]) :
         i < j /\ log[h][i].via = "replay" /\ log[h][j].via = "listener"

\* ---- C5
\* C5: the first frame a subscriber receives is the snapshot start() sends.
C5_SnapshotFirst ==
  \A h \in Handles : log[h] # <<>> => log[h][1].via = "start"

\* ---- C6
\* C6: once start() is over for a subscriber whose browser was still there,
\* the subscriber has received exactly one snapshot frame, whatever the
\* history fetch returned.
C6_OneSnapshotPerSubscribe ==
  \A h \in Handles :
    hpc[h] \in {"live", "rejected"} =>
      Cardinality({i \in 1..Len(log[h]) : log[h][i].via = "start"}) = 1

\* ---- C7
\* C7 (as stated): in the step that makes a notification for session S, every
\* connected subscriber of S is sent its frame, so that it is pushed before
\* the next upstream event is merged.
C7_PushedBeforeNextMerge ==
  [][\A s \in Sessions :
       notified'[s] # notified[s] =>
         \A h \in Connections(s) :
           open[h] => /\ Len(log'[h]) = Len(log[h]) + 1
                      /\ log'[h][Len(log'[h])].n = nNotif']_vars

\* C7 (amended): in every state, for every connected subscriber of S, the
\* frames it has received followed by the notifications still held by the
\* gate are exactly the notifications made for S since it registered, in
\* merge order: a frame is pushed in the step of its merge unless S is
\* buffering, and held frames keep their order.
C7_DeliveredOrHeldInMergeOrder ==
  \A h \in Handles :
    Subscribed(h) =>
      MutationIds(log[h], regAt[h]) \o HeldIds(buffered[hsess[h]], regAt[h])
        = IdsAfter(notified[hsess[h]], regAt[h])

\* A subscriber holds a frame passed on at once and, made after it, a
\* notification is held by the gate.
C7_Witness ==
  \E h \in Handles :
    /\ hpc[h] = "live" /\ open[h]
    /\ MutationIds(log[h], regAt[h]) # <<>>
    /\ HeldIds(buffered[hsess[h]], regAt[h]) # <<>>

\* ---- C8
\* C8: two connected subscribers of the same session have received, for the
\* notifications made since both were registered, the same frames (same
\* bytes on the wire) in the same order.
C8_SameFramesSameOrder ==
  \A g, h \in Handles :
    (g # h /\ Subscribed(g) /\ Subscribed(h) /\ hsess[g] = hsess[h]) =>
      FramesAfter(log[g], MaxOf(regAt[g], regAt[h]))
        = FramesAfter(log[h], MaxOf(regAt[g], regAt[h]))

\* Two subscribers of one session have both received two mutation frames.
C8_Witness ==
  \E g, h \in Handles :
    /\ g # h /\ hpc[g] = "live" /\ hpc[h] = "live" /\ open[g] /\ open[h]
    /\ hsess[g] = hsess[h]
    /\ Len(FramesAfter(log[g], MaxOf(regAt[g], regAt[h]))) >= 2

\* ---- C9
\* C9: in a step that makes a notification for session S while the write to
\* one registered handle of S fails, every other registered handle that
\* accepts writes still gets the frame, and the merge completes: the store
\* holds the merged entry the frame carries.
C9_FailureIsolated ==
  [][\A s \in Sessions :
       (notified'[s] # notified[s] /\ \E b \in Connections(s) : ~open[b]) =>
         /\ s \in DOMAIN state'
         /\ nNotif' = nNotif + 1
         /\ \A h \in Connections(s) :
              open[h] =>
                log'[h] = Append(log[h], Frame(s, state'[s], nNotif', "listener"))]_vars

\* Handle b was registered for the session before g, is still registered,
\* and lacks a frame that g received after registering: the write to b
\* failed and g was served.
C9_Witness ==
  \E s \in Sessions, b, g \in Handles :
    /\ b # g /\ {b, g} \subseteq Connections(s)
    /\ ~open[b] /\ open[g] /\ regAt[b] <= regAt[g]
    /\ \E i \in 1..Len(log[g]) :
         /\ log[g][i].via = "listener" /\ log[g][i].n > regAt[g]
         /\ \A j \in 1..Len(log[b]) : log[b][j].n # log[g][i].n

\* ---- C10
\* C10: in every session entry, permissions.activeId is the head of
\* permissions.queue when the queue is non-empty and unset when it is empty.
C10_ActiveIsQueueHead ==
  \A s \in DOMAIN state :
    LET perms == state[s].permissions IN
    perms.activeId = (IF perms.queue = <<>> THEN None ELSE perms.queue[1])

\* Three permission operations on one session left the second-announced
\* permission at the head: the head was removed and activeId advanced.
C10_Witness ==
  \E s \in DOMAIN state :
    /\ state[s].permissions.queue = <<"p2">>
    /\ state[s].permissions.activeId = "p2"
    /\ state[s].messages = <<>>
    /\ Len(notified[s]) = 3

\* ---- helpers of C11..C20
\* The step is ReadFrame dispatching frame f.
Dispatched(f) == nEvents' = nEvents + 1 /\ lastFrame' = f

NoDup(q) == \A i, j \in 1..Len(q) : q[i] = q[j] => i = j

HeadOrNone(q) == IF q = <<>> THEN None ELSE q[1]

\* ---- C11
\* C11: a step that dispatches permission.updated for an id the session's
\* byId already holds changes no session entry and notifies no listener, and
\* after every step no id occurs twice in any session's queue.
C11_AnnounceIdempotent ==
  [][/\ \A s \in Sessions, p \in PermIds :
          (Pending(s, p) /\ Dispatched(EventFrame(PermissionUpdated(s, p)))) =>
            UNCHANGED <<state, nNotif, notified, log, buffered>>
     /\ \A s \in DOMAIN state' : NoDup(state'[s].permissions.queue)]_vars

\* p1 was announced before p2 and both are pending when p1 is announced
\* again: the queue still holds each once.
C11_Witness ==
  /\ lastFrame = EventFrame(PermissionUpdated("s1", "p1"))
  /\ "s1" \in DOMAIN state
  /\ state["s1"].permissions.queue = <<"p1", "p2">>
  /\ nEvents = 3 /\ nNotif = 2

C13_AbsentRespondNeverFails ==
  [][\A s \in Sessions, p \in PermIds, ok \in BOOLEAN :
       (~Pending(s, p) /\ RespondToPermission(s, p, ok)) =>
         (UNCHANGED state /\ resp' # "error")]_vars

\* C13 (amended): a respondToPermission step for an id the session's byId
\* does not hold changes no entry and notifies no listener, and the request
\* is answered with an error exactly when the upstream rejected the
\* forwarded response.
C13_AbsentRespondIsLocalNoOp ==
  [][\A s \in Sessions, p \in PermIds, ok \in BOOLEAN :
       (~Pending(s, p) /\ RespondToPermission(s, p, ok)) =>
         /\ UNCHANGED <<state, nNotif, notified, log, buffered>>
         /\ (resp' = "error") <=> ~ok]_vars

\* A response was accepted although no permission was ever announced: the
\* store has an entry without permissions and nothing was notified.
C13_Witness ==
  /\ resp = "ok" /\ nNotif = 0
  /\ "s2" \in DOMAIN state
  /\ state["s2"].permissions.queue = <<>>

\* ---- C14
\* C14: once the last frame dispatched is permission.replied for p in the
\* shape the upstream sends it (properties.id), p is in the byId and the
\* queue of no session, and every session's activeId is the head of its
\* queue (unset when the queue is empty).
C14_RepliedRemoves ==
  \A p \in PermIds :
    lastFrame = EventFrame(PermissionRepliedById(p)) =>
      \A s \in DOMAIN state :
        /\ p \notin DOMAIN state[s].permissions.byId
        /\ \A i \in 1..Len(state[s].permissions.queue) :
             state[s].permissions.queue[i] # p
        /\ state[s].permissions.activeId
             = HeadOrNone(state[s].permissions.queue)

\* ---- C15
\* C15: at every moment at most one connect() execution is past the
\* in-flight guard (fetching or reading) and at most one reconnect timer is
\* pending.
C15_OneReadAtATime == Len(connects) <= 1 /\ Len(timers) <= 1

\* After two connection ends in a row the third attempt is in flight.
C15_Witness ==
  fails = 2 /\ connects = <<"fetching">> /\ timers = <<>> /\ isConnecting

\* ---- C16
\* The delays 1000 * 2^(k-1) ms capped at 30000 ms, by the number k >= 1 of
\* connection ends since the last successful connect.
ExpectedDelay(k) ==
  IF k >= 6 THEN 30000 ELSE <<1000, 2000, 4000, 8000, 16000>>[k]

C17_ReconnectFollowsEveryEnd ==
  /\ [](connects = <<>> => timers # <<>>)
  /\ (connects = <<>>) ~> (\E i \in 1..Len(connects) : connects[i] = "fetching")

\* A first attempt ended and the next attempt is in flight.
C17_Witness ==
  fails = 1 /\ connects = <<"fetching">> /\ reconnectAttempts = 1

\* ---- C18
\* C18: a step that dispatches a frame whose payload is not JSON changes no
\* session entry, notifies no listener and leaves the connect() execution in
\* its read loop with no reconnect scheduled.
C18_MalformedSkipped ==
  [][Dispatched(Malformed) =>
       /\ UNCHANGED <<state, nNotif, notified, log, buffered>>
       /\ UNCHANGED <<connects, isConnecting, timers, reconnectAttempts>>
       /\ connects' = <<"reading">>]_vars

\* The first frame of the connection did not parse; the second, read on the
\* same connection, was merged and notified.
C18_Witness ==
  /\ skippedAt = 1 /\ nEvents = 2 /\ nNotif = 1
  /\ lastFrame = EventFrame(MessageUpdated("s1", "m1", 1))
  /\ connects = <<"reading">>
  /\ "s1" \in DOMAIN state /\ Len(state["s1"].messages) = 1

\* ---- C19
\* C19: a step that dispatches an event with none of properties.sessionID,
\* properties.info.sessionID, properties.part.sessionID creates and changes
\* no session entry and notifies no listener.
C19_UnroutableDropped ==
  [][\A f \in FeedFrames :
       (/\ f.kind = "json"
        /\ f.ev.sessionID = None /\ f.ev.info.sessionID = None
        /\ f.ev.part.sessionID = None
        /\ Dispatched(f)) =>
         UNCHANGED <<state, nNotif, notified, log, buffered>>]_vars

\* After a message of s1 was merged, a message.updated without any session
\* id was dispatched: the store still holds only the entry of s1.
C19_Witness ==
  /\ lastFrame = EventFrame(MessageUpdated(None, "m1", 1))
  /\ nEvents = 2 /\ nNotif = 1
  /\ DOMAIN state = {"s1"}

\* ---- C20
\* The event kinds handleEvent has a branch for.
KnownKinds ==
  {"message.updated", "message.removed", "message.part.updated",
   "message.part.removed", "permission.updated", "permission.replied"}

\* C20: a step that dispatches an event of a kind without a branch leaves
\* every existing session entry (messages, permissions, toolsByCall,
\* lastUpdate) as it was, notifies no listener and leaves the connect()
\* execution in its read loop.
C20_UnknownKindIgnored ==
  [][\A f \in FeedFrames :
       (/\ f.kind = "json" /\ f.ev.type # None /\ f.ev.type \notin KnownKinds
        /\ Dispatched(f)) =>
         /\ \A s \in DOMAIN state : s \in DOMAIN state' /\ state'[s] = state[s]
         /\ UNCHANGED <<nNotif, notified, log, buffered>>
         /\ UNCHANGED <<connects, isConnecting, timers>>]_vars

\* A permission of s1 is pending, time has passed since it was announced,
\* and the last frame dispatched is session.idle for s1.
C20_Witness ==
  /\ lastFrame = EventFrame(OtherEvent("s1"))
  /\ nEvents = 2 /\ nNotif = 1 /\ now = 2
  /\ "s1" \in DOMAIN state
  /\ state["s1"].permissions.queue = <<"p1">>
  /\ state["s1"].lastUpdate = 1

\* ---- helpers of C21..C30
\* The entry after handleEvent has merged ev into entry st at the present
\* clock value.
Merged(st, ev) == FinishMerge(MergeEvent(st, ev), now)

Sorted(messages) ==
  \A i \in 1..(Len(messages) - 1) :
    Created(messages[i]) <= Created(messages[i + 1])

\* ---- C21
\* C21: for every reachable entry and every part-upserted event of its
\* session, merging the event a second time right after the first leaves
\* messages, parts, permissions and the tool-call index as the first merge
\* left them.
C21_PartUpsertIdempotent ==
  \A s \in DOMAIN state, ev \in StoreEvents :
    (ev.type = "message.part.updated" /\ ev.part.sessionID = s) =>
      LET once == Merged(state[s], ev)
          twice == Merged(once, ev)
      IN /\ twice.messages = once.messages
         /\ twice.toolsByCall = once.toolsByCall
         /\ twice.permissions = once.permissions

\* Part a of message m1 was upserted and is held once, with its index
\* entry: a replay of its event finds the part.
C21_Witness ==
  /\ "s1" \in DOMAIN state
  /\ Len(state["s1"].messages) = 1
  /\ state["s1"].messages[1].parts = <<ToolPart("a", "m1", "c1", "completed")>>
  /\ "c1" \in DOMAIN state["s1"].toolsByCall
  /\ nEvents = 3 /\ nNotif = 3

IndexConsistent(st, needState) ==
  \A i \in 1..Len(st.messages) :
    \A j \in 1..Len(st.messages[i].parts) :
      LET msg == st.messages[i]
          part == msg.parts[j]
      IN (/\ part.type = "tool" /\ part.callID # None
          /\ (needState => part.status # None)) =>
           /\ part.callID \in DOMAIN st.toolsByCall
           /\ st.toolsByCall[part.callID].messageID = msg.info.id
           /\ st.toolsByCall[part.callID].partID = part.id
           /\ \A c \in DOMAIN st.toolsByCall :
                (st.toolsByCall[c].partID = part.id
                 /\ st.toolsByCall[c].messageID = msg.info.id) => c = part.callID

\* C22 (as stated): in every entry, and in every entry the first load
\* builds, every tool part with a call id has exactly one index entry,
\* which names its message and part id.
C22_EveryToolPartIndexed ==
  /\ \A s \in DOMAIN state : IndexConsistent(state[s], FALSE)
  /\ \A h \in ToolHistories : IndexConsistent(LoadedState(h, now), FALSE)

\* C22 (amended): the same for every tool part with a call id and a state,
\* the upstream using every call id and every part id for one part.
C22_EveryToolPartWithStateIndexed ==
  /\ \A s \in DOMAIN state : IndexConsistent(state[s], TRUE)
  /\ \A h \in ToolHistories : IndexConsistent(LoadedState(h, now), TRUE)

\* Part a of m1 is held with a state and its index entry after three
\* frames, the last of which upserted it a second time.
C22_Witness ==
  /\ "s1" \in DOMAIN state
  /\ Len(state["s1"].messages) = 1
  /\ state["s1"].messages[1].parts = <<ToolPart("a", "m1", "c1", "completed")>>
  /\ state["s1"].toolsByCall =
       [c \in {"c1"} |-> [callID |-> "c1", messageID |-> "m1", partID |-> "a",
                          state |-> "completed"]]
  /\ lastFrame = EventFrame(PartUpdated(ToolPart("a", "m1", "c1", "completed")))
  /\ nEvents = 3

\* ---- C23
\* C23: no step (event merge, getSessionState, respondToPermission, or the
\* clock advancing) removes a session's entry or lowers its lastUpdate.
C23_LastUpdateMonotone ==
  [][\A s \in DOMAIN state :
       s \in DOMAIN state' /\ state'[s].lastUpdate >= state[s].lastUpdate]_vars

\* The entry of s1 was loaded by getSessionState, an event then announced
\* p1, the clock advanced and the accepted response stamped the entry.
C23_Witness ==
  /\ "s1" \in DOMAIN state
  /\ Len(state["s1"].messages) = 1
  /\ state["s1"].permissions.queue = <<>>
  /\ resp = "ok"
  /\ nEvents = 1
  /\ now = MaxClock
  /\ state["s1"].lastUpdate = MaxClock

\* ---- C25
\* A write on handle h for session s fails in this step: the listener pushes
\* a notification of s to h, whose subscription has been set up, or the
\* keepalive interval of h fires, after the browser has gone.
FailedPush(h, s) ==
  /\ notified'[s] # notified[s]
  /\ hpc[h] = "live"
  /\ h \in Connections(s)
  /\ ~open[h]

FailedKeepalive(h, s) == KeepaliveTick(h) /\ ~open[h] /\ hsess[h] = s

\* C25: after a step in which a write on a handle fails, by a mutation push
\* or by a keepalive, the handle is not in its session's live set.
C25_WriteFailureRemovesHandle ==
  [][\A h \in Handles, s \in Sessions :
       (FailedPush(h, s) \/ FailedKeepalive(h, s)) =>
         ~(s \in DOMAIN browserConnections' /\ h \in browserConnections'[s])]_vars

\* ---- C26
\* C26: a handle whose cancellation signal has fired is in no session's
\* live set, and no session maps to an empty set of handles.
C26_CancelledHandleRemoved ==
  /\ \A h \in Handles :
       aborted[h] => \A s \in DOMAIN browserConnections : h \notin browserConnections[s]
  /\ \A s \in DOMAIN browserConnections : browserConnections[s] # {}

\* ---- C27
\* The step is a step of a subscribe (either half of start()) or of a
\* disconnect (the browser going, its abort signal, a keepalive that fails).
SubscribeOrDisconnect ==
  \E h \in Handles :
    \/ \E s \in Sessions : StreamStart(h, s)
    \/ StreamFetched(h)
    \/ ClientDisconnect(h)
    \/ AbortSignal(h)
    \/ KeepaliveTick(h)

SameContents(a, b) ==
  /\ a.messages = b.messages
  /\ a.permissions = b.permissions
  /\ a.toolsByCall = b.toolsByCall

\* C27: no step removes a session's entry, and a step of a subscribe or of
\* a disconnect leaves the messages, permissions and tool-call index of
\* every entry as they were.
C27_EntryPersistsUnchanged ==
  [][\A s \in DOMAIN state :
       /\ s \in DOMAIN state'
       /\ SubscribeOrDisconnect => SameContents(state[s], state'[s])]_vars

\* ---- C28
\* C28: a keepalive timer exists only for a handle that is in the live set
\* of its session, and the timer of a handle whose subscription has been set
\* up is never armed again once it has been stopped.
C28_TimerOnlyForLiveHandle ==
  /\ [](\A h \in Handles : keepalive[h] => h \in Connections(hsess[h]))
  /\ [][\A h \in Handles :
          (hpc[h] = "live" /\ ~keepalive[h]) => ~keepalive'[h]]_vars

\* The abort listener of h1 has stopped its timer and removed it, while h2
\* of the same session keeps its timer.
C28_Witness ==
  /\ hsess["h1"] = "s1" /\ hpc["h1"] = "live" /\ aborted["h1"]
  /\ ~keepalive["h1"] /\ "h1" \notin Connections("s1")
  /\ hsess["h2"] = "s1" /\ keepalive["h2"] /\ "h2" \in Connections("s1")

\* ---- C29
\* The entry of session s is created, replaced or mutated in this step.
Changed(s) ==
  \/ (s \in DOMAIN state') # (s \in DOMAIN state)
  \/ s \in DOMAIN state /\ s \in DOMAIN state' /\ state'[s] # state[s]

\* The step hands one decoded event to handleEvent.
EventStep == nEvents' = nEvents + 1

\* The step completes the first load of a subscribe to s, and the entry of
\* s is the fetched history.
FirstLoadStep(s) ==
  /\ \E h \in Handles : hsess[h] = s /\ hpc[h] = "fetch" /\ hpc'[h] # "fetch"
  /\ s \in DOMAIN state'
  /\ state'[s] \in {LoadedState(messages, now) : messages \in Histories(s)}

\* The step is a permission response for s that the upstream accepted; it
\* leaves the messages and the tool-call index as they were.
AcceptedResponseStep(s) ==
  /\ nEvents' = nEvents /\ nNotif' = nNotif + 1 /\ resp' = "ok"
  /\ s \in DOMAIN state /\ s \in DOMAIN state'
  /\ state'[s].messages = state[s].messages
  /\ state'[s].toolsByCall = state[s].toolsByCall

C30_RejectionSurfaced ==
  /\ [](\A i \in 1..Len(sendResult) :
          sendResult[i] = "rejected" => chatResp[i] = "error")
  /\ [](posts = Cardinality({i \in 1..Len(sendResult) : sendResult[i] # "none"}))
  /\ [][RespondToPermission("s1", "p1", FALSE) => resp' = "error"]_vars

\* ---- C31
\* The entry of s, an absent entry counting as the empty entry the next
\* event would create.
EntryOrNew(st, s) == IF s \in DOMAIN st THEN st[s] ELSE NewState(now)

\* The step invokes the listener once for s with the entry of s after the
\* step: the server's listener writes that entry to every open handle of s.
InvokedOnce(s) ==
  /\ nNotif' = nNotif + 1
  /\ notified' = [notified EXCEPT ![s] = Append(@, nNotif + 1)]
  /\ \A h \in Handles :
       log'[h] = IF h \in Connections(s) /\ open[h]
                 THEN Append(log[h], Frame(s, state'[s], nNotif + 1, "listener"))
                 ELSE log[h]

\* The event is a duplicate announce, a reply for an unknown permission or
\* the removal of an absent message.
ChangesNothing(ev) ==
  LET st == EntryOrNew(state, ev.sessionID) IN
  \/ ev.type = "permission.updated" /\ ev.id \in DOMAIN st.permissions.byId
  \/ ev.type = "permission.replied" /\ ev.permissionID \notin DOMAIN st.permissions.byId
  \/ ev.type = "message.removed" /\ FindMsg(st.messages, ev.messageID) = 0

\* C31: a step that dispatches an event invokes the listener at most once;
\* when the step changes a session's entry it invokes it exactly once, in
\* the same step, with the session id and the entry after the merge; a
\* duplicate announce, a reply for an unknown permission and the removal of
\* an absent message change no entry and invoke nothing.
C31_OneInvocationPerChange ==
  [][\A f \in NotifyFrames :
       Dispatched(f) =>
         /\ nNotif' \in {nNotif, nNotif + 1}
         /\ \A s \in Sessions :
              EntryOrNew(state', s) # EntryOrNew(state, s) => InvokedOnce(s)
         /\ ChangesNothing(f.ev) =>
              /\ nNotif' = nNotif /\ notified' = notified /\ log' = log
              /\ EntryOrNew(state', "s1") = EntryOrNew(state, "s1")]_vars

\* h1 is subscribed to s1 and has received one listener frame for the
\* first announce of p1; the second announce was dispatched and invoked
\* nothing.
C31_Witness ==
  /\ nEvents = 2 /\ nNotif = 1
  /\ lastFrame = EventFrame(PermissionUpdated("s1", "p1"))
  /\ hpc["h1"] = "live"
  /\ Len(log["h1"]) = 2
  /\ log["h1"][2].via = "listener"
  /\ log["h1"][2].state = state["s1"]

\* ---- C32
\* Every index entry of st names a message of st and a part of that message.
NoDangling(st) ==
  \A c \in DOMAIN st.toolsByCall :
    LET i == FindMsg(st.messages, st.toolsByCall[c].messageID) IN
    i > 0 /\ FindPart(st.messages[i].parts, st.toolsByCall[c].partID) > 0

\* C32: in every entry, every toolsByCall entry names a message that the
\* session holds and a part that this message holds; so after a removed
\* message no entry names it, and after a removed part no entry names it.
C32_NoDanglingToolEntries ==
  \A s \in DOMAIN state : NoDangling(state[s])

\* The loaded history had tool parts a (of m1) and b (of m2); after the
\* removal of m1 the entry of b is the only one left.
C32_Witness ==
  /\ "s1" \in DOMAIN state
  /\ lastFrame = EventFrame(MessageRemoved("s1", "m1"))
  /\ nEvents = 1 /\ nNotif = 1
  /\ Len(state["s1"].messages) = 1
  /\ state["s1"].messages[1].parts = <<ToolPart("b", "m2", "c2", "running")>>
  /\ DOMAIN state["s1"].toolsByCall = {"c2"}

\* ---- C33
\* No two messages of st share an id, and no two parts of a message do.
UniqueIds(st) ==
  /\ \A i, j \in 1..Len(st.messages) :
       st.messages[i].info.id = st.messages[j].info.id => i = j
  /\ \A i \in 1..Len(st.messages) :
       \A j, k \in 1..Len(st.messages[i].parts) :
         st.messages[i].parts[j].id = st.messages[i].parts[k].id => j = k

\* C33: every entry holds at most one message per message id and every
\* message at most one part per part id; a step that merges message.updated
\* for a message the session holds leaves the number of messages as it was,
\* and the message has the event's info and the parts it had.
C33_UpsertKeepsIdsUnique ==
  /\ [](\A s \in DOMAIN state : UniqueIds(state[s]))
  /\ [][\A ev \in StoreEvents :
          (/\ ev.type = "message.updated"
           /\ nEvents' = nEvents + 1
           /\ handleEvent(ev)
           /\ ev.info.sessionID \in DOMAIN state
           /\ FindMsg(state[ev.info.sessionID].messages, ev.info.id) > 0) =>
            LET before == state[ev.info.sessionID].messages
                after == state'[ev.info.sessionID].messages
                i == FindMsg(before, ev.info.id)
                j == FindMsg(after, ev.info.id)
            IN /\ Len(after) = Len(before)
               /\ j > 0
               /\ after[j].info = ev.info
               /\ after[j].parts = before[i].parts]_vars

\* m1 holds part a and has the creation time of a later message.updated.
C33_Witness ==
  /\ "s1" \in DOMAIN state
  /\ nEvents = 3 /\ nNotif = 3
  /\ state["s1"].messages =
       <<[info |-> [id |-> "m1", sessionID |-> "s1", created |-> 2],
          parts |-> <<ToolPart("a", "m1", "c1", "running")>>]>>

\* ---- C34
\* The complete lines of a text, and the blank-line-terminated frames of a
\* sequence of lines; what follows the last terminator is left out.
RECURSIVE SplitLines(_, _, _)
SplitLines(text, cur, acc) ==
  IF text = <<>> THEN acc
  ELSE IF Head(text) = NL THEN SplitLines(Tail(text), <<>>, Append(acc, cur))
  ELSE SplitLines(Tail(text), Append(cur, Head(text)), acc)

RECURSIVE SplitFrames(_, _, _)
SplitFrames(lines, cur, acc) ==
  IF lines = <<>> THEN acc
  ELSE IF Head(lines) = <<>> THEN SplitFrames(Tail(lines), <<>>, Append(acc, cur))
  ELSE SplitFrames(Tail(lines), Append(cur, Head(lines)), acc)

\* The event of a frame: a frame whose data lines are one line carrying the
\* JSON text of an event has that event, any other frame has none.
FrameEvents(frame) ==
  LET data == SelectSeq(frame, IsDataLine) IN
  IF data = << <<TokX>> >> THEN <<PermissionUpdated("s1", "p1")>>
  ELSE IF data = << <<TokY>> >> THEN <<PermissionUpdated("s1", "p2")>>
  ELSE <<>>

RECURSIVE EventsOfFrames(_)
EventsOfFrames(frames) ==
  IF frames = <<>> THEN <<>>
  ELSE FrameEvents(Head(frames)) \o EventsOfFrames(Tail(frames))

ExpectedEvents(text) ==
  EventsOfFrames(SplitFrames(SplitLines(text, <<>>, <<>>), <<>>, <<>>))

\* The ids of a sequence of announcements, each at its first occurrence.
RECURSIVE FirstIds(_, _)
FirstIds(events, acc) ==
  IF events = <<>> THEN acc
  ELSE FirstIds(Tail(events),
                IF \E i \in 1..Len(acc) : acc[i] = Head(events).id
                THEN acc ELSE Append(acc, Head(events).id))

\* C34: whatever the chunks, the events handed to the merge step are the
\* events of the terminated frames of the text read so far, one per frame
\* whose data is the JSON text of an event, in feed order, and the store
\* has merged them in that order; frames without data lines and what
\* follows the last blank line hand on nothing.
C34_FramesDecodedInOrder ==
  /\ handed = ExpectedEvents(sent)
  /\ nEvents = Len(handed)
  /\ IF handed = <<>> THEN state = EmptyMap
     ELSE state["s1"].permissions.queue = FirstIds(handed, <<>>)

\* Two frames have been read in chunks that ended inside a line and inside
\* a frame: p1 was handed on, then a frame of a comment only, and the data
\* line of the third frame is still without its terminator.
C34_Witness ==
  /\ sent = <<TokX, NL, NL, TokC, NL, TokY>>
  /\ handed = <<PermissionUpdated("s1", "p1")>>
  /\ eventBuffer = << <<TokC>> >>
  /\ textBuffer = <<TokY>>

\* The elements of a sequence.
Elems(q) == {q[i] : i \in 1..Len(q)}

\* The permission state of session s in store st; a session without an
\* entry has none pending.
PermissionsOf(st, s) ==
  IF s \in DOMAIN st THEN st[s].permissions
  ELSE [byId |-> EmptyMap, queue |-> <<>>, activeId |-> None]

\* A step of the handle-all handler.
HandleAllStep ==
  \/ HandleAllRequest
  \/ HandleAllFetched
  \/ \E upOk \in BOOLEAN : HandleAllTurn(upOk)

\* When the handler returns, every id of the queue it started on was
\* answered upstream unless byId had lost it at its turn, no id was answered
\* twice, and every answered id is in exactly one of handled and failed.
C35_AnswersTheQueue ==
  handleAll.pc = "done" =>
    /\ \A p \in Elems(handleAll.start) :
         (p \in Elems(handleAll.posted)) # (p \in handleAll.absent)
    /\ NoDup(handleAll.posted)
    /\ Elems(handleAll.handled) \cup Elems(handleAll.failed)
         = Elems(handleAll.posted)
    /\ Elems(handleAll.handled) \cap Elems(handleAll.failed) = {}
    /\ Len(handleAll.handled) + Len(handleAll.failed) = Len(handleAll.posted)

\* No step of the handler changes the session's permission state.
C35_LeavesPermissions ==
  [][HandleAllStep =>
       PermissionsOf(state', HandleAllSession)
         = PermissionsOf(state, HandleAllSession)]_vars

\* The handler's loop leaves the permission state as it is.
C35_LoopLeavesPermissions ==
  [][(\E upOk \in BOOLEAN : HandleAllTurn(upOk)) =>
       PermissionsOf(state', HandleAllSession)
         = PermissionsOf(state, HandleAllSession)]_vars

\* C35: handle-all answers upstream every permission that was in the queue
\* when its loop began and is still in byId at its turn, each at most once,
\* reports each in exactly one of handled and failed with
\* totalCount = handledCount + failedCount, and does not itself change the
\* session's permission state.
C35_HandleAllAnswersQueue ==
  /\ []C35_AnswersTheQueue
  /\ C35_LeavesPermissions

\* ---- C36
\* The history fetch of a getSessionState call for s completes.
FirstLoadCompletes(s) == pending'[s] < pending[s]

\* Entry b still has what entry a had: its messages with their parts, its
\* pending permissions, and its tool-call index.
KeepsEffects(a, b) ==
  /\ \A i \in 1..Len(a.messages) :
       \E j \in 1..Len(b.messages) : b.messages[j] = a.messages[i]
  /\ b.permissions = a.permissions
  /\ \A c \in DOMAIN a.toolsByCall :
       c \in DOMAIN b.toolsByCall /\ b.toolsByCall[c] = a.toolsByCall[c]

\* C36: when the history fetch of a first load completes and events have
\* made an entry for the session meanwhile, the entry after the call still
\* has the messages, parts and pending permissions of those events.
C36_FirstLoadKeepsMergedEvents ==
  [][\A s \in Sessions :
       (FirstLoadCompletes(s) /\ s \in DOMAIN state) =>
         KeepsEffects(state[s], state'[s])]_vars

\* ---- C37
\* The message a part event names as the part's owner.
OwnerOf(ev) ==
  IF ev.type = "message.part.updated" THEN ev.part.messageID ELSE ev.messageID

\* The session's entry has no message of id mid.
MessageAbsent(st, s, mid) ==
  \A i \in 1..Len(EntryOrNew(st, s).messages) :
    EntryOrNew(st, s).messages[i].info.id # mid

\* A part event whose owning message is not in the session's store.
OrphanPart(ev) ==
  /\ ev.type \in {"message.part.updated", "message.part.removed"}
  /\ MessageAbsent(state, extractSessionId(ev), OwnerOf(ev))

\* C37: a part event whose owning message is not in the store leaves the
\* session's entry as it was (an empty entry when the session had none) and
\* notifies no listener; a message that arrives later is stored without
\* parts and adds nothing to the tool-call index.
C37_OrphanPartIgnored ==
  /\ [][\A f \in ToolFrames :
          (Dispatched(f) /\ OrphanPart(f.ev)) =>
            /\ state'[extractSessionId(f.ev)]
                 = EntryOrNew(state, extractSessionId(f.ev))
            /\ UNCHANGED <<nNotif, notified, log, buffered>>]_vars
  /\ [][\A f \in ToolFrames :
          (/\ Dispatched(f)
           /\ f.ev.type = "message.updated"
           /\ MessageAbsent(state, "s1", f.ev.info.id)) =>
            /\ \A j \in 1..Len(state'["s1"].messages) :
                 state'["s1"].messages[j].info.id = f.ev.info.id =>
                   state'["s1"].messages[j].parts = <<>>
            /\ state'["s1"].toolsByCall = EntryOrNew(state, "s1").toolsByCall]_vars

\* m2 has arrived and notified once; then a tool part of the absent m1 was
\* read: the entry has m2 alone, no index entry, and no second notification.
C37_Witness ==
  /\ lastFrame = EventFrame(PartUpdated(ToolPart("a", "m1", "c1", "running")))
  /\ nEvents = 2
  /\ nNotif = 1
  /\ "s1" \in DOMAIN state
  /\ Len(state["s1"].messages) = 1
  /\ state["s1"].messages[1].info.id = "m2"
  /\ state["s1"].messages[1].parts = <<>>
  /\ state["s1"].toolsByCall = EmptyMap

\* ---- C38
\* The position of id p in queue q, 0 when absent.
PosIn(q, p) ==
  IF \E i \in 1..Len(q) : q[i] = p
  THEN CHOOSE i \in 1..Len(q) : q[i] = p
  ELSE 0

\* Queue q2 keeps the ids of q that it still has in the order q had them,
\* and has the ids that q did not have after them.
KeepsOrder(q, q2) ==
  \A i, j \in 1..Len(q2) :
    i < j =>
      /\ (PosIn(q, q2[i]) > 0 /\ PosIn(q, q2[j]) > 0) =>
           PosIn(q, q2[i]) < PosIn(q, q2[j])
      /\ PosIn(q, q2[i]) = 0 => PosIn(q, q2[j]) = 0

\* C38: in every session the ids of the queue are the keys of byId, each
\* once; every step leaves the pending ids in the order in which they were
\* queued and puts a newly announced id last; and a step that retires one
\* permission other than the active one leaves activeId as it was.
C38_QueueMatchesById ==
  /\ [](\A s \in DOMAIN state :
         /\ Elems(state[s].permissions.queue) = DOMAIN state[s].permissions.byId
         /\ NoDup(state[s].permissions.queue))
  /\ [][\A s \in DOMAIN state :
          LET a == state[s].permissions
              b == state'[s].permissions
          IN /\ KeepsOrder(a.queue, b.queue)
             /\ \A p \in DOMAIN a.byId :
                  (DOMAIN b.byId = DOMAIN a.byId \ {p} /\ p # a.activeId) =>
                    b.activeId = a.activeId]_vars

\* p1 and p2 were announced in that order and the browser's response to p2,
\* which is not the head, was accepted: p1 is still queued and active.
C38_Witness ==
  /\ nEvents = 2
  /\ resp = "ok"
  /\ "s1" \in DOMAIN state
  /\ state["s1"].permissions.queue = <<"p1">>
  /\ DOMAIN state["s1"].permissions.byId = {"p1"}
  /\ state["s1"].permissions.activeId = "p1"
  /\ Len(notified["s1"]) = 3

\* ---- C39
\* C39: every frame a handle has received names the session of the handle's
\* request; a handle is registered under that session only; and a step that
\* notifies for a session writes nothing to the handles of other sessions.
C39_FanOutStaysInSession ==
  /\ [](\A h \in Handles :
         /\ \A i \in 1..Len(log[h]) : log[h][i].sessionId = hsess[h]
         /\ \A s \in DOMAIN browserConnections :
              h \in browserConnections[s] => s = hsess[h])
  /\ [][\A s \in Sessions :
          notified'[s] # notified[s] =>
            \A h \in Handles : hsess[h] # s => log'[h] = log[h]]_vars

\* h1 streams s1 and h2 streams s2, both registered and open; a mutation of
\* s1 after both had subscribed reached h1 and not h2.
C39_Witness ==
  /\ hsess["h1"] = "s1" /\ hsess["h2"] = "s2"
  /\ "h1" \in Connections("s1") /\ "h2" \in Connections("s2")
  /\ hpc["h1"] = "live" /\ hpc["h2"] = "live"
  /\ open["h1"] /\ open["h2"]
  /\ \E i \in 1..Len(notified["s1"]) :
       /\ notified["s1"][i] > regAt["h2"]
       /\ \E k \in 1..Len(log["h1"]) :
            log["h1"][k].via = "listener" /\ log["h1"][k].n = notified["s1"][i]
  /\ \A k \in 1..Len(log["h2"]) : log["h2"][k].via = "start"

\* ---- C40
\* The browser's stream is open and none of its buffer requests is on its
\* way.
Settled == eventSource.readyState = "open" /\ requests = {}

\* C40: a buffer/disable request for a session takes effect only when no
\* buffer/enable request for that session is still on its way, and once
\* the browser's stream is open and its requests have been handled no
\* session is left buffering.
C40_EnableBeforeDisable ==
  /\ [][\A s \in Sessions :
          (/\ BufferRequest("disable", s) \in requests
           /\ BufferRequest("disable", s) \notin requests') =>
            BufferRequest("enable", s) \notin requests]_vars
  /\ [](Settled => buffering = {})

\* Once settled, the session the browser shows is not buffering.
C40_ShownSessionNotBuffering == Settled => sessionId \notin buffering

====
